---- MODULE Spec2Model ----
(***************************************************************************)
(* Interactive task coordination core of droidrun/agent/interaction:       *)
(* ResumeContext, TaskExecutionContext, TimeoutManager, InteractionManager *)
(* and LifecycleManager, as state machines on one asyncio event loop.      *)
(*                                                                         *)
(* Python values are encoded as sequences so that values of different      *)
(* Python types stay comparable: a str is the sequence of its characters,  *)
(* the singletons True, False and None are one-element sequences holding   *)
(* the token "True", "False" or "None".  A character is a one-letter       *)
(* string; the CJK characters of the keyword tables are written as their   *)
(* code points ("u4e0d" is U+4E0D).  An Optional[...] attribute is a       *)
(* sequence of length 0 (None) or 1 (the value).                           *)
(***************************************************************************)
EXTENDS Integers, Sequences, FiniteSets, TLC

\* ------------------------------------------------------------------ bounds
\* questions asked and provide_answer calls accepted per question, where the
\* answer, the timer and the cancellation of one question race (Spec)
MaxRaceQuestions == 1
MaxAnswerCalls == 2
\* questions asked where two tasks are torn down (OwnerSpec) and where their
\* questions are swept (SweepSpec), and provide_answer calls accepted per
\* question there
MaxQuestions == 2
MaxSweepQuestions == 3
MaxOwnerAnswers == 1
\* questions asked through a gateway (GatewaySpec)
MaxGatewayQuestions == 2

\* ------------------------------------------------------------ Python values
PyTrue == <<"True">>
PyFalse == <<"False">>
PyNone == <<"None">>

IsBool(v) == v \in {PyTrue, PyFalse}

PyBool(b) == IF b THEN PyTrue ELSE PyFalse

\* bool(v) for the values of the model: None, False and "" are falsy
Truthy(v) == v \notin {PyFalse, PyNone, <<>>}

\* str(v): a str is itself, None prints as "None" (booleans never reach it)
PyStr(v) == IF v = PyNone THEN <<"N", "o", "n", "e">> ELSE v

None == <<>>
Some(x) == <<x>>

\* a dict as a function; d.update(e) / {**d, **e}
EmptyDict == [k \in {} |-> PyNone]

DictUpdate(d, e) ==
    [k \in (DOMAIN d) \cup (DOMAIN e) |-> IF k \in DOMAIN e THEN e[k] ELSE d[k]]

DictSet(d, key, v) == DictUpdate(d, [k \in {key} |-> v])

DictPop(d, key) == [k \in (DOMAIN d) \ {key} |-> d[k]]

DictGet(d, key, dflt) == IF key \in DOMAIN d THEN d[key] ELSE dflt

\* ---------------------------------------------------------- str operations
UpperCase == <<"A", "B", "C", "D", "E", "F", "G", "H", "I", "J", "K", "L", "M",
               "N", "O", "P", "Q", "R", "S", "T", "U", "V", "W", "X", "Y", "Z">>
LowerCase == <<"a", "b", "c", "d", "e", "f", "g", "h", "i", "j", "k", "l", "m",
               "n", "o", "p", "q", "r", "s", "t", "u", "v", "w", "x", "y", "z">>

LowerChar(c) ==
    IF \E i \in 1..Len(UpperCase) : UpperCase[i] = c
    THEN LowerCase[CHOOSE i \in 1..Len(UpperCase) : UpperCase[i] = c]
    ELSE c

\* str.lower()
Lower(s) == [i \in 1..Len(s) |-> LowerChar(s[i])]

IsSpace(c) == c \in {" ", "\t", "\n"}

\* str.strip(): drop the leading and the trailing whitespace
Strip(s) ==
    LET nonsp == {i \in 1..Len(s) : ~IsSpace(s[i])}
    IN  IF nonsp = {} THEN <<>>
        ELSE LET lo == CHOOSE i \in nonsp : \A j \in nonsp : i <= j
                 hi == CHOOSE i \in nonsp : \A j \in nonsp : j <= i
             IN  SubSeq(s, lo, hi)

\* kw in s (substring test)
Contains(s, kw) ==
    \E i \in 1..(Len(s) - Len(kw) + 1) : SubSeq(s, i, i + Len(kw) - 1) = kw

\* ---------------------------------------------------------- ResumeContext
\* ResumeStrategy values
REPLACE_PARAM == "replace_param"
ELEMENT_SELECTION == "element_select"
CONFIRM_CANCEL == "confirm_cancel"
PARAMETER_FILL == "parameter_fill"

\* negative_keywords, in list order
negative_keywords ==
    << <<"u5426">>, <<"n", "o">>, <<"n">>, <<"u53d6", "u6d88">>,
       <<"f", "a", "l", "s", "e">>, <<"0">>, <<"u505c", "u6b62">>,
       <<"u4e0d">>, <<"u4e0d", "u540c", "u610f">> >>

\* positive_keywords, in list order
positive_keywords ==
    << <<"u662f">>, <<"y", "e", "s">>, <<"y">>, <<"u786e", "u5b9a">>,
       <<"u786e", "u8ba4">>, <<"o", "k">>, <<"o", "k", "a", "y">>,
       <<"t", "r", "u", "e">>, <<"1">>, <<"u7ee7", "u7eed">>,
       <<"u540c", "u610f">> >>

AnyKeywordIn(keywords, s) ==
    \E i \in 1..Len(keywords) : Contains(s, keywords[i])

\* a _parse_confirmation that looks for the positive keywords first
ParseConfirmationPositiveFirst(answer) ==
    IF IsBool(answer) THEN answer = PyTrue
    ELSE LET answer_str == Strip(Lower(PyStr(answer)))
         IN  IF AnyKeywordIn(positive_keywords, answer_str) THEN TRUE
             ELSE FALSE

\* ResumeContext._parse_confirmation
ParseConfirmation(answer) ==
    IF IsBool(answer) THEN answer = PyTrue
    ELSE LET answer_str == Strip(Lower(PyStr(answer)))
         IN  IF AnyKeywordIn(negative_keywords, answer_str) THEN FALSE
             ELSE IF AnyKeywordIn(positive_keywords, answer_str) THEN TRUE
             ELSE FALSE

\* A ResumeContext object (resume_id, step_index, action_name and created_at
\* take no part in any decision and are left out)
NewResumeContext(strategy, args, kwargs, context_data) ==
    [strategy |-> strategy,
     original_args |-> args,
     original_kwargs |-> kwargs,
     context_data |-> context_data,
     modified_args |-> None,
     modified_kwargs |-> None]

\* the kwargs a strategy produces from a copy of original_kwargs
StrategyKwargs(rc, answer) ==
    LET kwargs == rc.original_kwargs
    IN  CASE rc.strategy = REPLACE_PARAM ->
                IF "text" \in DOMAIN kwargs THEN DictSet(kwargs, "text", answer)
                ELSE IF "value" \in DOMAIN kwargs THEN DictSet(kwargs, "value", answer)
                ELSE kwargs
          [] rc.strategy = CONFIRM_CANCEL ->
                DictSet(kwargs, "__user_confirmed", PyBool(ParseConfirmation(answer)))
          [] rc.strategy = PARAMETER_FILL ->
                LET param_name == DictGet(rc.context_data, "param_name", "")
                IN  IF param_name # "" THEN DictSet(kwargs, param_name, answer)
                    ELSE DictSet(kwargs, "user_input", answer)
          [] rc.strategy = ELEMENT_SELECTION ->
                \* isinstance(answer, (int, str)): bool is an int, None is not
                IF answer # PyNone THEN DictSet(kwargs, "selected_element", answer)
                ELSE kwargs

\* the args a strategy produces from a copy of original_args
StrategyArgs(rc, answer) ==
    LET args == rc.original_args
        kwargs == rc.original_kwargs
    IN  IF /\ rc.strategy = REPLACE_PARAM
           /\ "text" \notin DOMAIN kwargs
           /\ "value" \notin DOMAIN kwargs
           /\ Len(args) > 0
        THEN [args EXCEPT ![1] = answer]
        ELSE args

\* a merge in which the keyword arguments win over additional_data
MergeAdditionalUnder(kwargs, additional_data) == DictUpdate(additional_data, kwargs)

\* the merge of additional_data, last (a None or empty mapping merges nothing)
MergeAdditional(kwargs, additional_data) == DictUpdate(kwargs, additional_data)

\* ResumeContext.apply_answer: the object after the call
ApplyAnswer(rc, answer, additional_data) ==
    [rc EXCEPT
       !.modified_args = Some(StrategyArgs(rc, answer)),
       !.modified_kwargs =
           Some(MergeAdditional(StrategyKwargs(rc, answer), additional_data))]

\* an execute_with_modified_params without the check that an answer was applied
ExecuteOutcomeUnchecked(rc) ==
    IF /\ rc.strategy = CONFIRM_CANCEL
       /\ \/ rc.modified_kwargs = None
          \/ ~Truthy(DictGet(rc.modified_kwargs[1], "__user_confirmed", PyFalse))
    THEN "UserCancelledError"
    ELSE "called"

\* ResumeContext.execute_with_modified_params: how the call ends
\* ("ValueError", "UserCancelledError", or "called": action_func was invoked)
ExecuteOutcome(rc) ==
    IF rc.modified_args = None \/ rc.modified_kwargs = None THEN "ValueError"
    ELSE IF /\ rc.strategy = CONFIRM_CANCEL
            /\ ~Truthy(DictGet(rc.modified_kwargs[1], "__user_confirmed", PyFalse))
         THEN "UserCancelledError"
         ELSE "called"

\* ResumeContext.execute_with_modified_params: the object after the call
ExecuteUpdate(rc) ==
    IF ExecuteOutcome(rc) = "called" /\ rc.strategy = CONFIRM_CANCEL
    THEN [rc EXCEPT !.modified_kwargs = Some(DictPop(rc.modified_kwargs[1], "__user_confirmed"))]
    ELSE rc

\* ------------------------------------------------------------------- state
VARIABLES
    rcs,            \* the ResumeContext objects, by identity (index)
    appliedAnswer,  \* per ResumeContext: the answer last passed to apply_answer
    ctx,            \* the TaskExecutionContext objects, by task_id
    lm_tasks,       \* LifecycleManager._tasks (its keys)
    im_tasks,       \* InteractionManager._tasks (its keys)
    current_task_id,\* LifecycleManager._current_task_id (None or a task id)
    im_running,     \* InteractionManager._running
    questions,      \* every PendingQuestion created, by question id (index)
    pending,        \* InteractionManager._pending_questions (its keys)
    future,         \* per question: its asyncio.Future
    timeouts,       \* TimeoutManager._timeouts (its keys)
    timer,          \* per question: the asyncio task running _run_timeout
    timeout_tasks,  \* per timer id: the TimeoutTask (delay_seconds, callback)
    calls,          \* provide_answer calls suspended in an async on_answer_callback
    hist,           \* per question: what has happened to it so far
    handler_questions, \* InteractionWebSocketHandler._pending_questions (its keys)
    sent,           \* the messages the handler gave to websocket_send_callback
    message,        \* the message the handler was last called with
    response,       \* the response of the handler's last call
    last            \* the call or step that ran last, and how it ended

vars == <<rcs, appliedAnswer, ctx, lm_tasks, im_tasks, current_task_id, im_running, questions,
          pending, future, timeouts, timer, timeout_tasks, calls, hist,
          handler_questions, sent, message, response, last>>

resumeVars == <<rcs, appliedAnswer>>
taskVars == <<ctx, lm_tasks, im_tasks, current_task_id, im_running>>
handlerVars == <<handler_questions, sent, message, response>>
questionVars == <<questions, pending, future, timeouts, timer, timeout_tasks,
                  calls, hist>>

Tasks == {"t1", "t2"}
\* the question ids a caller may name: those created and one never created
QIds == 1..(Len(questions) + 1)

\* the values an operator answers with, the question's default_value,
\* a task result and the texts of the errors
Answers == {<<"o", "k">>}
DefaultValue == <<"d">>
\* timeout_seconds of a question (the default of ask_user_async)
QuestionTimeout == 60
ResultValue == <<"r">>
FailReason == <<"f">>
CallbackError == <<"e">>

\* TaskState values; NOT_CONSTRUCTED marks a task id no object exists for yet
NOT_CONSTRUCTED == "not_constructed"
INITIALIZED == "initialized"
RUNNING == "running"
WAITING_USER == "waiting_user"
COMPLETED == "completed"
FAILED == "failed"
CANCELLED == "cancelled"
TaskStates == {INITIALIZED, RUNNING, WAITING_USER, COMPLETED, FAILED, CANCELLED}
FinishedStates == {COMPLETED, FAILED, CANCELLED}

\* what a callback handed in by the task driver is: absent, a plain function,
\* a coroutine function; a resume callback returns or raises
OnAnswerKinds == {"none", "sync", "async"}
OnTimeoutKinds == {"none", "sync"}
ResumeCallbackKinds == {"none", "returns", "raises"}

\* the record of a call: op, the task and the question or ResumeContext it was
\* about, how it ended (ret), and whether it invoked a callable handed in by
\* the driver (a callback, the action function)
Call(op, task, id, ret, cb) ==
    [op |-> op, task |-> task, id |-> id, ret |-> ret, cb |-> cb]

\* ---------------------------------------------------- TaskExecutionContext
\* TaskExecutionContext.__init__
NewTaskContext ==
    [state |-> INITIALIZED,
     current_step |-> 0,
     variables |-> EmptyDict,
     current_resume_context |-> None,
     pending_question_id |-> None,
     resume_callback |-> "none",
     result |-> None,
     error |-> None]

NoTaskContext == [NewTaskContext EXCEPT !.state = NOT_CONSTRUCTED]

\* TaskExecutionContext.set_state
set_state(c, new_state) == [c EXCEPT !.state = new_state]

\* a pause_for_user_input without the check for a task that is waiting already
pause_for_user_input_again(c, question_id, resume_context, resume_callback) ==
    set_state([c EXCEPT !.current_resume_context = Some(resume_context),
                        !.pending_question_id = Some(question_id),
                        !.resume_callback = resume_callback],
              WAITING_USER)

\* TaskExecutionContext.pause_for_user_input
pause_for_user_input(c, question_id, resume_context, resume_callback) ==
    IF c.state = WAITING_USER THEN c
    ELSE set_state([c EXCEPT !.current_resume_context = Some(resume_context),
                             !.pending_question_id = Some(question_id),
                             !.resume_callback = resume_callback],
                   WAITING_USER)

\* a resume_with_answer that only checks that a suspension record exists
resume_raises_without_state_check(c) == c.current_resume_context = None

\* TaskExecutionContext.resume_with_answer: does it raise ValueError
resume_raises(c) == c.state # WAITING_USER \/ c.current_resume_context = None

\* a resume_with_answer that fails the task when its resume callback raises
resume_with_answer_failing(c) ==
    IF resume_raises(c) THEN c
    ELSE IF c.resume_callback = "raises"
         THEN [set_state(c, FAILED) EXCEPT !.error = Some(CallbackError)]
         ELSE set_state(c, RUNNING)

\* TaskExecutionContext.resume_with_answer: the task after the call
resume_with_answer(c) ==
    IF resume_raises(c) THEN c
    ELSE LET running == set_state(c, RUNNING)
         IN  IF c.resume_callback = "raises"
             THEN [running EXCEPT !.error = Some(CallbackError)]
             ELSE running

\* TaskExecutionContext.resume_with_answer: the ResumeContext objects after the call
resume_apply(c, heap, answer, additional_data) ==
    IF resume_raises(c) THEN heap
    ELSE LET r == c.current_resume_context[1]
         IN  [heap EXCEPT ![r] = ApplyAnswer(heap[r], answer, additional_data)]

\* TaskExecutionContext.resume_with_answer: the answers applied so far
resume_applied(c, applied, answer) ==
    IF resume_raises(c) THEN applied
    ELSE [applied EXCEPT ![c.current_resume_context[1]] = Some(answer)]

\* TaskExecutionContext.resume_with_answer: is the resume callback invoked
resume_invokes(c) == ~resume_raises(c) /\ c.resume_callback # "none"

\* TaskExecutionContext.complete
complete(c, result) == [set_state(c, COMPLETED) EXCEPT !.result = Some(result)]

\* TaskExecutionContext.fail
fail(c, error) == [set_state(c, FAILED) EXCEPT !.error = Some(error)]

\* TaskExecutionContext.cancel
cancel(c) == set_state(c, CANCELLED)

\* ------------------------------------------- TimeoutManager, the questions
\* The registries of InteractionManager and TimeoutManager as one value, so
\* that a method that calls another is the composition of their effects.
Registries ==
    [pending |-> pending, future |-> future, timeouts |-> timeouts,
     timer |-> timer, timeout_tasks |-> timeout_tasks, hist |-> hist]

\* the TimeoutTask ask_user_async sets for a question
QuestionTimeoutTask ==
    [delay_seconds |-> QuestionTimeout, callback |-> "_on_question_timeout"]

\* a future just created, resolved with a value, cancelled
PendingFuture == [state |-> "pending", result |-> PyNone]
set_result(value) == [state |-> "finished", result |-> value]
CancelledFuture == [state |-> "cancelled", result |-> PyNone]

NoHistory ==
    [accepted |-> 0, answer_cb |-> 0, answer_true |-> 0, timeout_run |-> 0,
     timeout_cb |-> 0, cancel_true |-> 0, swept |-> 0, resolved |-> 0,
     gateway |-> "none"]

\* seq with value v at index i, which is an index of seq or the next one
Put(seq, i, v) == IF i = Len(seq) + 1 THEN Append(seq, v) ELSE [seq EXCEPT ![i] = v]

\* a set_timeout that replaces the timer scheduled under the id
set_timeout_replacing(R, id, delay_seconds, callback) ==
    [R EXCEPT
       !.timeouts = R.timeouts \cup {id},
       !.timer = Put(R.timer, id, "sleeping"),
       !.timeout_tasks = Put(R.timeout_tasks, id,
                             [delay_seconds |-> delay_seconds, callback |-> callback])]

\* TimeoutManager.set_timeout: the registries after the call (unchanged when
\* it raises ValueError: the id is scheduled).  The task it creates is
\* "sleeping", or "rescheduled" when the task that was cancelled under the
\* same id has not taken its CancelledError yet.
set_timeout(R, id, delay_seconds, callback) ==
    IF id \in R.timeouts THEN R
    ELSE [R EXCEPT
            !.timeouts = R.timeouts \cup {id},
            !.timer = Put(R.timer, id,
                          IF /\ id <= Len(R.timer)
                             /\ R.timer[id] \in {"cancelling", "interrupting"}
                          THEN "rescheduled" ELSE "sleeping"),
            !.timeout_tasks = Put(R.timeout_tasks, id,
                                  [delay_seconds |-> delay_seconds, callback |-> callback])]

\* "timeout_task.task.cancel()" on a task that is not done: a task that has
\* not reached its callback ("sleeping") will take CancelledError in place
\* of the callback ("cancelling"); a task suspended inside its coroutine
\* callback ("running") will take it inside the callback ("interrupting");
\* a "rescheduled" id has two tasks that will take it
task_cancel(state) ==
    CASE state = "sleeping" -> "cancelling"
      [] state = "running" -> "interrupting"
      [] state = "rescheduled" -> "cancelling"
      [] OTHER -> state

\* TimeoutManager.cancel_timeout
cancel_timeout(R, id) ==
    IF id \notin R.timeouts THEN R
    ELSE [R EXCEPT
            !.timer = [R.timer EXCEPT ![id] = task_cancel(R.timer[id])],
            !.timeouts = R.timeouts \ {id}]

\* "if question.future and not question.future.done(): question.future.set_result(v)"
resolve_future(R, q, value) ==
    IF R.future[q].state = "pending"
    THEN [R EXCEPT !.future[q] = set_result(value),
                   !.hist[q].resolved = R.hist[q].resolved + 1]
    ELSE R

\* "if question_id in self._pending_questions: del ..."
discard_question(R, q) == [R EXCEPT !.pending = R.pending \ {q}]

\* a cancel_question that resolves the future with None instead of cancelling
cancel_question_resolving(R, q) ==
    IF q \notin R.pending THEN R
    ELSE LET R2 == resolve_future(cancel_timeout(R, q), q, PyNone)
         IN  [discard_question(R2, q) EXCEPT
                !.hist[q].cancel_true = R2.hist[q].cancel_true + 1]

\* a cancel_question that leaves the timer of the question alone
cancel_question_keeping_timer(R, q) ==
    IF q \notin R.pending THEN R
    ELSE LET R2 == IF R.future[q].state = "pending"
                   THEN [R EXCEPT !.future[q] = CancelledFuture,
                                  !.hist[q].resolved = R.hist[q].resolved + 1]
                   ELSE R
         IN  [discard_question(R2, q) EXCEPT
                !.hist[q].cancel_true = R2.hist[q].cancel_true + 1]

\* InteractionManager.cancel_question
cancel_question(R, q) ==
    IF q \notin R.pending THEN R
    ELSE LET R1 == cancel_timeout(R, q)
             R2 == IF R1.future[q].state = "pending"
                   THEN [R1 EXCEPT !.future[q] = CancelledFuture,
                                   !.hist[q].resolved = R1.hist[q].resolved + 1]
                   ELSE R1
         IN  [discard_question(R2, q) EXCEPT
                !.hist[q].cancel_true = R2.hist[q].cancel_true + 1]

\* cancel_question for each id of a list, in list order
RECURSIVE cancel_each(_, _)
cancel_each(R, question_ids) ==
    IF question_ids = <<>> THEN R
    ELSE LET q == Head(question_ids)
             R1 == cancel_question(R, q)
         IN  cancel_each([R1 EXCEPT !.hist[q].swept = R1.hist[q].swept + 1],
                         Tail(question_ids))

\* the ids of a set in the order of the dict (insertion order: ascending id)
RECURSIVE in_order(_)
in_order(ids) ==
    IF ids = {} THEN <<>>
    ELSE LET m == CHOOSE i \in ids : \A j \in ids : i <= j
         IN  <<m>> \o in_order(ids \ {m})

\* cancel_timeout for each id of a list, in list order
RECURSIVE cancel_timeouts(_, _)
cancel_timeouts(R, timeout_ids) ==
    IF timeout_ids = <<>> THEN R
    ELSE cancel_timeouts(cancel_timeout(R, Head(timeout_ids)), Tail(timeout_ids))

\* TimeoutManager.cancel_all
cancel_all(R) == cancel_timeouts(R, in_order(R.timeouts))

\* TimeoutManager.shutdown: the tasks it gathers, "[t.task for t in
\* self._timeouts.values() if t.task]", read after cancel_all
shutdown_gathers(R) == in_order(cancel_all(R).timeouts)

\* "for question_id in question_ids: self.cancel_question(question_id)"
RECURSIVE cancel_questions(_, _)
cancel_questions(R, question_ids) ==
    IF question_ids = <<>> THEN R
    ELSE cancel_questions(cancel_question(R, Head(question_ids)), Tail(question_ids))

\* a shutdown that shuts the TimeoutManager down and leaves the questions
shutdown_timers_only(R) == cancel_all(R)

\* InteractionManager.shutdown: the registries after the call.  Every
\* pending question is cancelled, then the TimeoutManager is shut down.
shutdown(R) == cancel_all(cancel_questions(R, in_order(R.pending)))

\* a sweep that stops after the first question of the task
cancel_first_task_question(R, task_id) ==
    LET question_ids == in_order({q \in R.pending : questions[q].task_id = task_id})
    IN  IF question_ids = <<>> THEN R ELSE cancel_each(R, <<Head(question_ids)>>)

\* InteractionManager._cancel_task_questions
cancel_task_questions(R, task_id) ==
    cancel_each(R, in_order({q \in R.pending : questions[q].task_id = task_id}))

\* InteractionManager.unregister_task: the registries after the call
unregister_task(R, task_id) ==
    IF task_id \in im_tasks THEN cancel_task_questions(R, task_id) ELSE R

\* unregister_task for each task id of a list, in list order
RECURSIVE unregister_tasks(_, _)
unregister_tasks(R, task_ids) ==
    IF task_ids = <<>> THEN R
    ELSE unregister_tasks(unregister_task(R, Head(task_ids)), Tail(task_ids))

\* the registries are written back
SetRegistries(R) ==
    /\ pending' = R.pending
    /\ future' = R.future
    /\ timeouts' = R.timeouts
    /\ timer' = R.timer
    /\ timeout_tasks' = R.timeout_tasks
    /\ hist' = R.hist

\* an on-answer or on-timeout callback of the driver runs: it resumes the
\* task the question was asked for
CallbackResumes(task_id, answer, additional_data) ==
    /\ ctx' = [ctx EXCEPT ![task_id] = resume_with_answer(ctx[task_id])]
    /\ rcs' = resume_apply(ctx[task_id], rcs, answer, additional_data)
    /\ appliedAnswer' = resume_applied(ctx[task_id], appliedAnswer, answer)

\* ------------------------------------------------------------------- Init
Init ==
    /\ rcs = <<>>
    /\ appliedAnswer = <<>>
    /\ ctx = [t \in Tasks |-> NoTaskContext]
    /\ lm_tasks = {}
    /\ im_tasks = {}
    /\ current_task_id = None
    /\ im_running = TRUE
    /\ handler_questions = {}
    /\ sent = {}
    /\ message = EmptyDict
    /\ response = EmptyDict
    /\ questions = <<>>
    /\ pending = {}
    /\ future = <<>>
    /\ timeouts = {}
    /\ timer = <<>>
    /\ timeout_tasks = <<>>
    /\ calls = {}
    /\ hist = <<>>
    /\ last = Call("init", "", 0, "", FALSE)

\* the ResumeContext the driver builds around the action it suspends
DriverResumeContext ==
    NewResumeContext(PARAMETER_FILL, <<>>, EmptyDict, [param_name |-> "date"])

\* task ids are fresh (uuid4): the first id no object was constructed for
FreshTaskId ==
    IF ctx["t1"].state = NOT_CONSTRUCTED THEN "t1" ELSE "t2"

\* ------------------------------------------- the task driver, on one task
\* TaskExecutionContext(task_id, goal)
Construct(t) ==
    /\ ctx[t].state = NOT_CONSTRUCTED
    /\ ctx' = [ctx EXCEPT ![t] = NewTaskContext]
    /\ last' = Call("TaskExecutionContext", t, 0, "", FALSE)
    /\ UNCHANGED <<handlerVars, resumeVars, lm_tasks, im_tasks, current_task_id, im_running, questionVars>>

\* task.set_state(new_state)
SetState(t, new_state) ==
    /\ ctx[t].state # NOT_CONSTRUCTED
    /\ ctx' = [ctx EXCEPT ![t] = set_state(ctx[t], new_state)]
    /\ last' = Call("set_state", t, 0, "", FALSE)
    /\ UNCHANGED <<handlerVars, resumeVars, lm_tasks, im_tasks, current_task_id, im_running, questionVars>>

\* task.pause_for_user_input(q, r, cb)
PauseForUserInput(t, q, r, cb) ==
    /\ ctx[t].state # NOT_CONSTRUCTED
    /\ r \in 1..Len(rcs)
    /\ ctx' = [ctx EXCEPT ![t] = pause_for_user_input(ctx[t], q, r, cb)]
    /\ last' = Call("pause_for_user_input", t, q, "", FALSE)
    /\ UNCHANGED <<handlerVars, resumeVars, lm_tasks, im_tasks, current_task_id, im_running, questionVars>>

\* task.resume_with_answer(answer)
ResumeWithAnswer(t, answer) ==
    /\ ctx[t].state # NOT_CONSTRUCTED
    /\ CallbackResumes(t, answer, EmptyDict)
    /\ last' = Call("resume_with_answer", t, 0,
                    IF resume_raises(ctx[t]) THEN "ValueError" ELSE "",
                    resume_invokes(ctx[t]))
    /\ UNCHANGED <<handlerVars, lm_tasks, im_tasks, current_task_id, im_running, questionVars>>

\* task.complete(result)
Complete(t) ==
    /\ ctx[t].state # NOT_CONSTRUCTED
    /\ ctx' = [ctx EXCEPT ![t] = complete(ctx[t], ResultValue)]
    /\ last' = Call("complete", t, 0, "", FALSE)
    /\ UNCHANGED <<handlerVars, resumeVars, lm_tasks, im_tasks, current_task_id, im_running, questionVars>>

\* task.fail(error)
Fail(t) ==
    /\ ctx[t].state # NOT_CONSTRUCTED
    /\ ctx' = [ctx EXCEPT ![t] = fail(ctx[t], FailReason)]
    /\ last' = Call("fail", t, 0, "", FALSE)
    /\ UNCHANGED <<handlerVars, resumeVars, lm_tasks, im_tasks, current_task_id, im_running, questionVars>>

\* task.cancel(reason)
Cancel(t) ==
    /\ ctx[t].state # NOT_CONSTRUCTED
    /\ ctx' = [ctx EXCEPT ![t] = cancel(ctx[t])]
    /\ last' = Call("cancel", t, 0, "", FALSE)
    /\ UNCHANGED <<handlerVars, resumeVars, lm_tasks, im_tasks, current_task_id, im_running, questionVars>>

\* ----------------------------------------------------- InteractionManager
\* InteractionManager.register_task
RegisterTask(t) ==
    /\ ctx[t].state # NOT_CONSTRUCTED
    /\ im_tasks' = im_tasks \cup {t}
    /\ last' = Call("register_task", t, 0, "", FALSE)
    /\ UNCHANGED <<handlerVars, resumeVars, ctx, lm_tasks, current_task_id, im_running, questionVars>>

\* InteractionManager.unregister_task
UnregisterTask(t) ==
    /\ SetRegistries(unregister_task(Registries, t))
    /\ im_tasks' = im_tasks \ {t}
    /\ last' = Call("unregister_task", t, 0,
                    IF t \in im_tasks THEN "True" ELSE "False", FALSE)
    /\ UNCHANGED <<handlerVars, resumeVars, ctx, lm_tasks, current_task_id, im_running, questions, calls>>

\* a lookup of the task among the tasks that were ever constructed
task_constructed(t) == ctx[t].state # NOT_CONSTRUCTED

\* "task_ctx = self.get_task(task_id)": is there one
task_registered(t) == t \in im_tasks

\* InteractionManager.ask_user_async, up to the hand-over of the message to
\* the gateway.  gateway is "none" (the manager has no
\* websocket_send_callback: the call returns) or "sending" (the call awaits
\* websocket_send_callback(message)).  record is the resume_context argument:
\* a ResumeContext the driver has at hand, or 0 for one built for this call.
ask_user_async_about(t, on_answer, on_timeout, gateway, record) ==
    IF ~task_registered(t)
    THEN /\ last' = Call("ask_user_async", t, 0, "ValueError", FALSE)
         /\ UNCHANGED <<handlerVars, resumeVars, taskVars, questionVars>>
    ELSE /\ LET question_id == Len(questions) + 1
                resume_context == IF record = 0 THEN Len(rcs) + 1 ELSE record
            IN  /\ rcs' = IF record = 0 THEN Append(rcs, DriverResumeContext) ELSE rcs
                /\ appliedAnswer' = IF record = 0 THEN Append(appliedAnswer, None)
                                    ELSE appliedAnswer
                /\ questions' = Append(questions,
                      [task_id |-> t,
                       default_value |-> DefaultValue,
                       resume_context |-> resume_context,
                       on_answer_callback |-> on_answer,
                       on_timeout_callback |-> on_timeout])
                /\ pending' = pending \cup {question_id}
                /\ future' = Append(future, PendingFuture)
                /\ timeouts' = timeouts \cup {question_id}
                /\ timer' = Append(timer, "sleeping")
                /\ timeout_tasks' = Append(timeout_tasks, QuestionTimeoutTask)
                /\ hist' = Append(hist, [NoHistory EXCEPT !.gateway = gateway])
                /\ last' = Call("ask_user_async", t, question_id,
                                IF gateway = "sending" THEN "await" ELSE "",
                                gateway = "sending")
         /\ UNCHANGED <<handlerVars, taskVars, calls>>

\* InteractionManager.ask_user_async, with a ResumeContext built for it
ask_user_async(t, on_answer, on_timeout, gateway) ==
    ask_user_async_about(t, on_answer, on_timeout, gateway, 0)

\* InteractionManager.ask_user_async(task_id, ..., resume_context=r) of a
\* manager without a gateway, with a ResumeContext the driver holds
AskUserAsyncAbout(t, on_answer, on_timeout, r) ==
    /\ r \in 1..Len(rcs)
    /\ ask_user_async_about(t, on_answer, on_timeout, "none", r)

\* InteractionManager.ask_user_async of a manager without a gateway
AskUserAsync(t, on_answer, on_timeout) ==
    ask_user_async(t, on_answer, on_timeout, "none")

\* InteractionManager.ask_user_async of a manager with a gateway, up to the
\* await of websocket_send_callback(message)
AskUserAsyncSend(t, on_answer, on_timeout) ==
    ask_user_async(t, on_answer, on_timeout, "sending")

\* an ask_user_async that returns only once the future of its question is done
AskUserAsyncReturnsWhenResolved(q) ==
    /\ q \in 1..Len(questions)
    /\ hist[q].gateway = "sending"
    /\ future[q].state # "pending"
    /\ hist' = [hist EXCEPT ![q].gateway = "sent"]
    /\ last' = Call("ask_user_async", questions[q].task_id, q, "", FALSE)
    /\ UNCHANGED <<handlerVars, resumeVars, taskVars, questions, pending, future, timeouts,
                   timer, timeout_tasks, calls>>

\* InteractionManager.ask_user_async: websocket_send_callback has returned
\* (or raised an Exception, which is logged), the call returns question_id
AskUserAsyncReturn(q) ==
    /\ q \in 1..Len(questions)
    /\ hist[q].gateway = "sending"
    /\ hist' = [hist EXCEPT ![q].gateway = "sent"]
    /\ last' = Call("ask_user_async", questions[q].task_id, q, "", FALSE)
    /\ UNCHANGED <<handlerVars, resumeVars, taskVars, questions, pending, future, timeouts,
                   timer, timeout_tasks, calls>>

\* an ask_user_async that lets the exception of the send reach its caller
AskUserAsyncSendPropagates(q) ==
    /\ q \in 1..Len(questions)
    /\ hist[q].gateway = "sending"
    /\ hist' = [hist EXCEPT ![q].gateway = "failed"]
    /\ last' = Call("ask_user_async", questions[q].task_id, q, "Exception", FALSE)
    /\ UNCHANGED <<handlerVars, resumeVars, taskVars, questions, pending, future, timeouts,
                   timer, timeout_tasks, calls>>

\* InteractionManager.ask_user_async: websocket_send_callback (or the making
\* of the message) has raised an Exception; "except Exception" logs it and
\* the call returns question_id
AskUserAsyncSendRaises(q) ==
    /\ q \in 1..Len(questions)
    /\ hist[q].gateway = "sending"
    /\ hist' = [hist EXCEPT ![q].gateway = "failed"]
    /\ last' = Call("ask_user_async", questions[q].task_id, q, "", FALSE)
    /\ UNCHANGED <<handlerVars, resumeVars, taskVars, questions, pending, future, timeouts,
                   timer, timeout_tasks, calls>>

\* what provide_answer does after its callback: resolve, discard, return True
finish_answer(R, q, answer) ==
    LET R1 == discard_question(resolve_future(R, q, answer), q)
    IN  [R1 EXCEPT !.hist[q].answer_true = R1.hist[q].answer_true + 1]

\* what provide_answer does before its callback: cancel the timeout
start_answer(R, q) ==
    LET R1 == cancel_timeout(R, q)
    IN  [R1 EXCEPT !.hist[q].accepted = R1.hist[q].accepted + 1,
                   !.hist[q].answer_cb =
                       IF questions[q].on_answer_callback = "none"
                       THEN R1.hist[q].answer_cb
                       ELSE R1.hist[q].answer_cb + 1]

\* a lookup among all the questions ever created, pending or not
question_created(R, q) == q \in DOMAIN R.future

\* "question = self._pending_questions.get(question_id)": is there one
question_found(R, q) == q \in R.pending

\* InteractionManager.provide_answer, up to its return or to the await of a
\* coroutine on_answer_callback
ProvideAnswer(q, answer) ==
    IF ~question_found(Registries, q)
    THEN /\ last' = Call("provide_answer", "", q, "False", FALSE)
         /\ UNCHANGED <<handlerVars, resumeVars, taskVars, questionVars>>
    ELSE /\ LET kind == questions[q].on_answer_callback
                R == start_answer(Registries, q)
            IN  /\ IF kind = "none"
                   THEN UNCHANGED <<handlerVars, ctx, resumeVars>>
                   ELSE CallbackResumes(questions[q].task_id, answer, EmptyDict)
                /\ IF kind = "async"
                   THEN /\ SetRegistries(R)
                        /\ calls' = calls \cup
                              {[q |-> q, n |-> hist[q].accepted + 1, answer |-> answer]}
                        /\ last' = Call("provide_answer", "", q, "await", TRUE)
                   ELSE /\ SetRegistries(finish_answer(R, q, answer))
                        /\ calls' = calls
                        /\ last' = Call("provide_answer", "", q, "True", kind # "none")
         /\ UNCHANGED <<handlerVars, lm_tasks, im_tasks, current_task_id, im_running, questions>>

\* provide_answer continues after its coroutine on_answer_callback returned
\* or raised an Exception
ProvideAnswerResume(c) ==
    /\ c \in calls
    /\ calls' = calls \ {c}
    /\ SetRegistries(finish_answer(Registries, c.q, c.answer))
    /\ last' = Call("provide_answer", "", c.q, "True", FALSE)
    /\ UNCHANGED <<handlerVars, resumeVars, taskVars, questions>>

\* the asyncio task that awaits provide_answer is cancelled while the
\* coroutine on_answer_callback is suspended: CancelledError is no Exception
\* and leaves provide_answer
ProvideAnswerCancelled(c) ==
    /\ c \in calls
    /\ calls' = calls \ {c}
    /\ last' = Call("provide_answer", "", c.q, "CancelledError", FALSE)
    /\ UNCHANGED <<handlerVars, resumeVars, taskVars, questions, pending, future, timeouts,
                   timer, timeout_tasks, hist>>

\* a timeout that resolves the future with None, whatever the default is
on_question_timeout_without_default(R, q) ==
    IF q \notin R.pending THEN R
    ELSE LET R1 == [R EXCEPT
                      !.hist[q].timeout_run = R.hist[q].timeout_run + 1,
                      !.hist[q].timeout_cb =
                          IF questions[q].on_timeout_callback = "none"
                          THEN R.hist[q].timeout_cb
                          ELSE R.hist[q].timeout_cb + 1]
         IN  discard_question(resolve_future(R1, q, PyNone), q)

\* InteractionManager._on_question_timeout: the registries after the call
on_question_timeout(R, q) ==
    IF q \notin R.pending THEN R
    ELSE LET R1 == [R EXCEPT
                      !.hist[q].timeout_run = R.hist[q].timeout_run + 1,
                      !.hist[q].timeout_cb =
                          IF questions[q].on_timeout_callback = "none"
                          THEN R.hist[q].timeout_cb
                          ELSE R.hist[q].timeout_cb + 1]
         IN  discard_question(resolve_future(R1, q, questions[q].default_value), q)

\* TimeoutManager._run_timeout: the sleep is over, the callback
\* (_on_question_timeout) runs, the finally clause drops the entry
TimerFires(q) ==
    /\ q \in 1..Len(questions)
    /\ timer[q] = "sleeping"
    /\ LET R == on_question_timeout(Registries, q)
           invoked == q \in pending /\ questions[q].on_timeout_callback # "none"
       IN  /\ SetRegistries([R EXCEPT !.timeouts = R.timeouts \ {q},
                                      !.timer[q] = "done"])
           /\ IF invoked
              THEN CallbackResumes(questions[q].task_id,
                                   questions[q].default_value, EmptyDict)
              ELSE UNCHANGED <<handlerVars, ctx, resumeVars>>
           /\ last' = Call("_on_question_timeout", "", q,
                           IF q \in pending THEN "ran" ELSE "return", invoked)
    /\ UNCHANGED <<handlerVars, lm_tasks, im_tasks, current_task_id, im_running, questions, calls>>

\* TimeoutManager._run_timeout: the cancelled task takes its CancelledError,
\* the finally clause drops the entry if it is (still) there
TimerCancelled(q) ==
    /\ q \in 1..Len(timer)
    /\ timer[q] = "cancelling"
    /\ timer' = [timer EXCEPT ![q] = "done"]
    /\ timeouts' = timeouts \ {q}
    /\ last' = Call("_run_timeout", "", q, "CancelledError", FALSE)
    /\ UNCHANGED <<handlerVars, resumeVars, taskVars, questions, pending, future, timeout_tasks,
                   calls, hist>>

\* InteractionManager.cancel_question
CancelQuestion(q) ==
    /\ SetRegistries(cancel_question(Registries, q))
    /\ last' = Call("cancel_question", "", q,
                    IF q \in pending THEN "True" ELSE "False", FALSE)
    /\ UNCHANGED <<handlerVars, resumeVars, taskVars, questions, calls>>

\* ------------------------------------------- a TimeoutManager, alone
\* the callbacks a client of TimeoutManager hands in: a plain function, a
\* coroutine function that suspends before it returns
TimerCallbackKinds == {"sync", "async"}

\* await timeout_manager.set_timeout(id, delay_seconds, callback).  An id
\* that is not in the registry is used again, whether the task that ran
\* under it has ended or was cancelled and has not run since.
SetTimeout(id, delay_seconds, callback) ==
    /\ id \in 1..(Len(timer) + 1)
    /\ SetRegistries(set_timeout(Registries, id, delay_seconds, callback))
    /\ last' = Call("set_timeout", "", id,
                    IF id \in timeouts THEN "ValueError" ELSE "", FALSE)
    /\ UNCHANGED <<handlerVars, resumeVars, taskVars, questions, calls>>

\* TimeoutManager._run_timeout of a client's timer: the sleep is over and the
\* callback is called.  A plain function runs to its end (an exception is
\* logged) and the finally clause drops the entry; a coroutine is awaited.
RunTimeout(id) ==
    /\ id \in 1..Len(timer)
    /\ timer[id] = "sleeping"
    /\ timeout_tasks[id].callback \in TimerCallbackKinds
    /\ IF timeout_tasks[id].callback = "sync"
       THEN /\ timer' = [timer EXCEPT ![id] = "done"]
            /\ timeouts' = timeouts \ {id}
            /\ last' = Call("_run_timeout", "", id, "ran", TRUE)
       ELSE /\ timer' = [timer EXCEPT ![id] = "running"]
            /\ timeouts' = timeouts
            /\ last' = Call("_run_timeout", "", id, "await", TRUE)
    /\ UNCHANGED <<handlerVars, resumeVars, taskVars, questions, pending, future, timeout_tasks,
                   calls, hist>>

\* TimeoutManager._run_timeout: the coroutine callback ends (it returns, or
\* raises an Exception, which is logged); the finally clause drops the entry
CallbackReturns(id) ==
    /\ id \in 1..Len(timer)
    /\ timer[id] = "running"
    /\ timer' = [timer EXCEPT ![id] = "done"]
    /\ timeouts' = timeouts \ {id}
    /\ last' = Call("_run_timeout", "", id, "ran", FALSE)
    /\ UNCHANGED <<handlerVars, resumeVars, taskVars, questions, pending, future, timeout_tasks,
                   calls, hist>>

\* TimeoutManager._run_timeout: the cancelled task takes its CancelledError
\* at the await inside the coroutine callback, which ends there; the except
\* clause swallows the error, the finally clause drops the entry if any
CallbackInterrupted(id) ==
    /\ id \in 1..Len(timer)
    /\ timer[id] = "interrupting"
    /\ timer' = [timer EXCEPT ![id] = "done"]
    /\ timeouts' = timeouts \ {id}
    /\ last' = Call("_run_timeout", "", id, "CancelledError", FALSE)
    /\ UNCHANGED <<handlerVars, resumeVars, taskVars, questions, pending, future, timeout_tasks,
                   calls, hist>>

\* TimeoutManager._run_timeout of the task that was cancelled under an id
\* which has been scheduled again since: it takes its CancelledError before
\* the new task's sleep is over.  If it had begun its sleep, its finally
\* clause finds the id in the registry and deletes the entry, which is the
\* new task's; if it had never run, no line of _run_timeout executes.
StaleTimerCancelled(id) ==
    /\ id \in 1..Len(timer)
    /\ timer[id] = "rescheduled"
    /\ timer' = [timer EXCEPT ![id] = "sleeping"]
    /\ \E started \in BOOLEAN :
          /\ timeouts' = IF started THEN timeouts \ {id} ELSE timeouts
          /\ last' = Call("_run_timeout", "", id,
                          IF started THEN "CancelledError" ELSE "never started", FALSE)
    /\ UNCHANGED <<handlerVars, resumeVars, taskVars, questions, pending, future, timeout_tasks,
                   calls, hist>>

\* timeout_manager.cancel_timeout(id)
CancelTimeout(id) ==
    /\ SetRegistries(cancel_timeout(Registries, id))
    /\ last' = Call("cancel_timeout", "", id,
                    IF id \in timeouts THEN "True" ELSE "False", FALSE)
    /\ UNCHANGED <<handlerVars, resumeVars, taskVars, questions, calls>>

\* await timeout_manager.shutdown(): cancel_all, then the gather of the tasks
\* still in the registry; "await" when there is a task to wait for
ShutdownTimeoutManager ==
    /\ SetRegistries(cancel_all(Registries))
    /\ last' = Call("TimeoutManager.shutdown", "", 0,
                    IF shutdown_gathers(Registries) = <<>> THEN "" ELSE "await", FALSE)
    /\ UNCHANGED <<handlerVars, resumeVars, taskVars, questions, calls>>

\* await interaction_manager.shutdown().  The await of
\* TimeoutManager.shutdown does not suspend (it gathers no task), so that
\* the call runs from its first line to its last in one step.
ShutdownInteractionManager ==
    /\ SetRegistries(shutdown(Registries))
    /\ im_running' = FALSE
    /\ im_tasks' = {}
    /\ last' = Call("InteractionManager.shutdown", "", 0,
                    IF shutdown_gathers(shutdown(Registries)) = <<>> THEN "" ELSE "await",
                    FALSE)
    /\ UNCHANGED <<handlerVars, resumeVars, ctx, lm_tasks, current_task_id, questions, calls>>

\* ------------------------------------------------------- LifecycleManager
\* LifecycleManager.start_task
StartTask(t) ==
    /\ ctx[t].state = NOT_CONSTRUCTED
    /\ t = FreshTaskId
    /\ ctx' = [ctx EXCEPT ![t] = set_state(NewTaskContext, RUNNING)]
    /\ lm_tasks' = lm_tasks \cup {t}
    /\ current_task_id' = Some(t)
    /\ im_tasks' = im_tasks \cup {t}
    /\ last' = Call("start_task", t, 0, "", FALSE)
    /\ UNCHANGED <<handlerVars, resumeVars, im_running, questionVars>>

\* LifecycleManager.start_task(goal, task_id=t) with the id of a task that
\* was started before: a new TaskExecutionContext takes the place of the old
\* one in both registries
StartTaskAgain(t) ==
    /\ ctx[t].state # NOT_CONSTRUCTED
    /\ ctx' = [ctx EXCEPT ![t] = set_state(NewTaskContext, RUNNING)]
    /\ lm_tasks' = lm_tasks \cup {t}
    /\ current_task_id' = Some(t)
    /\ im_tasks' = im_tasks \cup {t}
    /\ last' = Call("start_task", t, 0, "again", FALSE)
    /\ UNCHANGED <<handlerVars, resumeVars, im_running, questionVars>>

\* LifecycleManager.record_action: the task's record_action (one more
\* executed action, current_step + 1) if get_task finds it
RecordAction(t) ==
    /\ ctx' = IF t \in lm_tasks
              THEN [ctx EXCEPT ![t].current_step = ctx[t].current_step + 1]
              ELSE ctx
    /\ last' = Call("record_action", t, 0, IF t \in lm_tasks THEN "" ELSE "unknown", FALSE)
    /\ UNCHANGED <<handlerVars, resumeVars, lm_tasks, im_tasks, current_task_id, im_running, questionVars>>

\* LifecycleManager.set_variable: the task's set_variable if get_task finds it
SetVariable(t, key, value) ==
    /\ ctx' = IF t \in lm_tasks
              THEN [ctx EXCEPT ![t].variables = DictSet(ctx[t].variables, key, value)]
              ELSE ctx
    /\ last' = Call("set_variable", t, 0, IF t \in lm_tasks THEN "" ELSE "unknown", FALSE)
    /\ UNCHANGED <<handlerVars, resumeVars, lm_tasks, im_tasks, current_task_id, im_running, questionVars>>

\* how complete_task and cancel_task end: the task is unknown to the
\* LifecycleManager, or the InteractionManager unregistered it, or had not
\* registered it
TeardownOutcome(t) ==
    IF t \notin lm_tasks THEN "unknown"
    ELSE IF t \in im_tasks THEN "unregistered" ELSE "not registered"

\* a teardown that leaves _current_task_id as it is
AfterTerminalKeepingCurrent(t) ==
    /\ SetRegistries(unregister_task(Registries, t))
    /\ im_tasks' = im_tasks \ {t}
    /\ UNCHANGED <<handlerVars, resumeVars, lm_tasks, current_task_id, im_running, questions, calls>>

\* what complete_task and cancel_task do after the terminal transition
AfterTerminal(t) ==
    /\ SetRegistries(unregister_task(Registries, t))
    /\ im_tasks' = im_tasks \ {t}
    /\ current_task_id' = IF current_task_id = Some(t) THEN None ELSE current_task_id
    /\ UNCHANGED <<handlerVars, resumeVars, lm_tasks, im_running, questions, calls>>

\* LifecycleManager.complete_task
CompleteTask(t, success) ==
    /\ last' = Call("complete_task", t, 0,
                    TeardownOutcome(t), FALSE)
    /\ IF t \in lm_tasks
       THEN /\ ctx' = [ctx EXCEPT ![t] = IF success THEN complete(ctx[t], ResultValue)
                                         ELSE fail(ctx[t], FailReason)]
            /\ AfterTerminal(t)
       ELSE UNCHANGED <<handlerVars, resumeVars, taskVars, questionVars>>

\* LifecycleManager.cancel_task
CancelTask(t) ==
    /\ last' = Call("cancel_task", t, 0,
                    TeardownOutcome(t), FALSE)
    /\ IF t \in lm_tasks
       THEN /\ ctx' = [ctx EXCEPT ![t] = cancel(ctx[t])]
            /\ AfterTerminal(t)
       ELSE UNCHANGED <<handlerVars, resumeVars, taskVars, questionVars>>

\* the task ids of a set in the order of LifecycleManager._tasks (the order
\* in which start_task made them)
tasks_in_order(task_ids) == SelectSeq(<<"t1", "t2">>, LAMBDA t : t \in task_ids)

\* a cleanup that removes every task that is not running
task_ids_not_running(tasks) == {t \in tasks : ctx[t].state # RUNNING}

\* LifecycleManager.cleanup_finished_tasks: task_ids_to_remove
task_ids_to_remove(tasks) == {t \in tasks : ctx[t].state \in FinishedStates}

\* LifecycleManager.cleanup_finished_tasks
CleanupFinishedTasks ==
    LET removed == task_ids_to_remove(lm_tasks)
    IN  /\ SetRegistries(unregister_tasks(Registries, tasks_in_order(removed)))
        /\ im_tasks' = im_tasks \ removed
        /\ lm_tasks' = lm_tasks \ removed
        /\ last' = Call("cleanup_finished_tasks", "", 0, "", FALSE)
        /\ UNCHANGED <<handlerVars, resumeVars, ctx, current_task_id, im_running, questions, calls>>

\* ------------------------------------------- InteractionWebSocketHandler
\* the message handle_question_message gives to websocket_send_callback
user_question(m) ==
    [type |-> "user_question",
     question_id |-> DictGet(m, "question_id", PyNone),
     question_text |-> DictGet(m, "question_text", PyNone),
     question_type |-> DictGet(m, "question_type", <<"t", "e", "x", "t">>),
     options |-> DictGet(m, "options", <<>>),
     default_value |-> DictGet(m, "default_value", PyNone),
     timeout_seconds |-> DictGet(m, "timeout_seconds", QuestionTimeout)]

\* handle_question_message: the error a message is refused with, "" if none
question_rejected(m) ==
    IF ~Truthy(DictGet(m, "question_id", PyNone)) THEN "Missing question_id"
    ELSE IF DictGet(m, "question_type", <<"t", "e", "x", "t">>)
            \notin {<<"t", "e", "x", "t">>, <<"c", "h", "o", "i", "c", "e">>,
                    <<"c", "o", "n", "f", "i", "r", "m">>}
         THEN "Invalid question_type"
         ELSE ""

\* handle_answer_message: the error a message is refused with, "" if none
answer_rejected(m) ==
    IF ~Truthy(DictGet(m, "question_id", PyNone)) THEN "Missing question_id"
    ELSE IF DictGet(m, "answer", PyNone) = PyNone THEN "Missing answer"
    ELSE ""

\* await handler.handle_question_message(m, websocket_send_callback), with
\* a send that returns or raises an Exception
HandleQuestionMessage(m, send) ==
    LET question_id == DictGet(m, "question_id", PyNone)
        error == question_rejected(m)
    IN  /\ message' = m
        /\ handler_questions' = IF error = "" THEN handler_questions \cup {question_id}
                                ELSE handler_questions
        /\ sent' = IF error = "" THEN sent \cup {user_question(m)} ELSE sent
        /\ response' = IF error # "" THEN [status |-> "error", error |-> error]
                       ELSE IF send = "raises"
                            THEN [status |-> "error", error |-> "Exception"]
                            ELSE [status |-> "success", question_id |-> question_id]
        /\ last' = Call("handle_question_message", "", 0,
                        IF error # "" \/ send = "raises" THEN "error" ELSE "success",
                        error = "")
        /\ UNCHANGED <<resumeVars, taskVars, questionVars>>

\* await handler.handle_answer_message(m), with the provide_answer it awaits
\* (of a question whose on_answer_callback is not a coroutine function, so
\* that the call does not suspend).  The InteractionManager's questions 1
\* and 2 have the ids "q1" and "q2"; q is 0 for any other id.
HandleAnswerMessage(m) ==
    LET question_id == DictGet(m, "question_id", PyNone)
        answer == DictGet(m, "answer", PyNone)
        q == IF question_id = <<"q", "1">> THEN 1
             ELSE IF question_id = <<"q", "2">> THEN 2 ELSE 0
    IN  /\ message' = m
        /\ IF answer_rejected(m) # ""
           THEN /\ response' = [status |-> "error", error |-> answer_rejected(m)]
                /\ last' = Call("handle_answer_message", "", 0, "error", FALSE)
                /\ UNCHANGED <<handler_questions, sent, resumeVars, taskVars, questionVars>>
           ELSE IF ~question_found(Registries, q)
           THEN /\ response' = [status |-> "error",
                                 error |-> "Question not found or already answered"]
                /\ last' = Call("handle_answer_message", "", q, "error", TRUE)
                /\ UNCHANGED <<handler_questions, sent, resumeVars, taskVars, questionVars>>
           ELSE /\ questions[q].on_answer_callback # "async"
                /\ IF questions[q].on_answer_callback = "none"
                   THEN UNCHANGED <<ctx, resumeVars>>
                   ELSE CallbackResumes(questions[q].task_id, answer,
                                        DictGet(m, "additional_data", EmptyDict))
                /\ SetRegistries(finish_answer(start_answer(Registries, q), q, answer))
                /\ handler_questions' = handler_questions \ {question_id}
                /\ response' = [status |-> "success", question_id |-> question_id]
                /\ last' = Call("handle_answer_message", "", q, "success", TRUE)
                /\ UNCHANGED <<sent, lm_tasks, im_tasks, current_task_id, im_running,
                               questions, calls>>

\* ------------------------------------------------------------------- Next
\* the bounds of a run: questions asked, provide_answer calls accepted
CanAsk(max) == Len(questions) < max
CanAnswer(q, max) == q \in pending => hist[q].accepted < max

\* Spec: one task run through LifecycleManager; the driver asks and pauses
\* the task on a question asked for it; the operator's answers (also
\* duplicated and late ones), the timer and the cancellations race.
RaceTasks == {"t1"}

Next ==
    \/ \E t \in RaceTasks : StartTask(t)
    \/ \E t \in RaceTasks, oa \in OnAnswerKinds, ot \in OnTimeoutKinds :
          CanAsk(MaxRaceQuestions) /\ AskUserAsync(t, oa, ot)
    \/ \E q \in 1..Len(questions) :
          PauseForUserInput(questions[q].task_id, q, questions[q].resume_context, "returns")
    \/ \E q \in QIds, a \in Answers : CanAnswer(q, MaxAnswerCalls) /\ ProvideAnswer(q, a)
    \/ \E c \in calls : ProvideAnswerResume(c)
    \/ \E c \in calls : ProvideAnswerCancelled(c)
    \/ \E q \in QIds : TimerFires(q)
    \/ \E q \in QIds : TimerCancelled(q)
    \/ \E q \in QIds : CancelQuestion(q)
    \/ \E t \in RaceTasks : UnregisterTask(t)
    \/ \E t \in RaceTasks, success \in BOOLEAN : CompleteTask(t, success)
    \/ \E t \in RaceTasks : CancelTask(t)

Spec == Init /\ [][Next]_vars

\* OwnerSpec: two tasks run through LifecycleManager, each asked questions
\* for (with a coroutine on-answer callback, so that an answer can be in
\* flight); tasks are unregistered, cancelled by their driver, completed and
\* cancelled through LifecycleManager while their questions are pending,
\* being answered, or timing out.  A task is torn down while something of
\* it is left: it is registered, or not yet finished.
OwnerAnswerKinds == {"async"}
OwnerTimeoutKinds == {"none"}

LeftToTearDown(t) == t \in im_tasks \/ ctx[t].state \notin FinishedStates

OwnerNext ==
    \/ \E t \in Tasks : StartTask(t)
    \/ \E t \in im_tasks, oa \in OwnerAnswerKinds, ot \in OwnerTimeoutKinds :
          CanAsk(MaxQuestions) /\ AskUserAsync(t, oa, ot)
    \/ \E q \in pending :
          /\ ctx[questions[q].task_id].state = RUNNING
          /\ PauseForUserInput(questions[q].task_id, q, questions[q].resume_context, "returns")
    \/ \E q \in pending, a \in Answers : CanAnswer(q, MaxOwnerAnswers) /\ ProvideAnswer(q, a)
    \/ \E c \in calls : ProvideAnswerResume(c)
    \/ \E q \in QIds : TimerFires(q)
    \/ \E q \in QIds : TimerCancelled(q)
    \/ \E t \in Tasks : UnregisterTask(t)
    \/ \E t \in lm_tasks : ctx[t].state \notin FinishedStates /\ Cancel(t)
    \/ \E t \in lm_tasks, success \in BOOLEAN : LeftToTearDown(t) /\ CompleteTask(t, success)
    \/ \E t \in lm_tasks : LeftToTearDown(t) /\ CancelTask(t)

OwnerSpec == Init /\ [][OwnerNext]_vars

\* SweepSpec: the questions of two tasks, pending, being answered, timing
\* out and cancelled, and the tasks unregistered, registered or not.
SweepNext ==
    \/ \E t \in Tasks : StartTask(t)
    \/ \E t \in im_tasks, oa \in OwnerAnswerKinds, ot \in OwnerTimeoutKinds :
          CanAsk(MaxSweepQuestions) /\ AskUserAsync(t, oa, ot)
    \/ \E q \in pending, a \in Answers : CanAnswer(q, MaxOwnerAnswers) /\ ProvideAnswer(q, a)
    \/ \E c \in calls : ProvideAnswerResume(c)
    \/ \E q \in QIds : TimerFires(q)
    \/ \E q \in QIds : TimerCancelled(q)
    \/ \E q \in pending : CancelQuestion(q)
    \/ \E t \in Tasks : UnregisterTask(t)

SweepSpec == Init /\ [][SweepNext]_vars

\* TimerSpec: a client of a TimeoutManager sets timers under the ids it has
\* (one more than once), the timers run their callbacks, the client cancels
\* them one by one and shuts the manager down.
MaxTimers == 2

TimerNext ==
    \/ \E id \in 1..MaxTimers, d \in {1, 2}, cb \in TimerCallbackKinds :
          SetTimeout(id, d, cb)
    \/ \E id \in 1..MaxTimers : RunTimeout(id)
    \/ \E id \in 1..MaxTimers : CallbackReturns(id)
    \/ \E id \in 1..MaxTimers : CallbackInterrupted(id)
    \/ \E id \in 1..MaxTimers : TimerCancelled(id)
    \/ \E id \in 1..MaxTimers : StaleTimerCancelled(id)
    \/ \E id \in 1..MaxTimers : CancelTimeout(id)
    \/ ShutdownTimeoutManager

TimerSpec == Init /\ [][TimerNext]_vars

\* ShutdownSpec: questions of one task are pending, being answered (the
\* on-answer coroutine suspended) and timing out when the InteractionManager
\* is shut down; the manager is used again afterwards.
MaxShutdownQuestions == 2

ShutdownNext ==
    \/ \E t \in RaceTasks : StartTask(t)
    \/ \E t \in RaceTasks : t \notin im_tasks /\ RegisterTask(t)
    \/ \E t \in im_tasks, oa \in OwnerAnswerKinds, ot \in OnTimeoutKinds :
          CanAsk(MaxShutdownQuestions) /\ AskUserAsync(t, oa, ot)
    \/ \E q \in pending, a \in Answers : CanAnswer(q, MaxOwnerAnswers) /\ ProvideAnswer(q, a)
    \/ \E c \in calls : ProvideAnswerResume(c)
    \/ \E q \in QIds : TimerFires(q)
    \/ \E q \in QIds : TimerCancelled(q)
    \/ ShutdownInteractionManager

ShutdownSpec == Init /\ [][ShutdownNext]_vars

\* CleanupSpec: two tasks run through LifecycleManager and are asked
\* questions for; they wait for the user, are finished by their driver (the
\* task object's own complete, fail and cancel) or through LifecycleManager,
\* and the finished ones are cleaned up.
MaxCleanupQuestions == 2

CleanupNext ==
    \/ \E t \in Tasks : StartTask(t)
    \/ \E t \in im_tasks, oa \in OwnerAnswerKinds, ot \in OwnerTimeoutKinds :
          CanAsk(MaxCleanupQuestions) /\ AskUserAsync(t, oa, ot)
    \/ \E q \in pending :
          /\ ctx[questions[q].task_id].state = RUNNING
          /\ PauseForUserInput(questions[q].task_id, q, questions[q].resume_context, "returns")
    \/ \E q \in QIds : TimerFires(q)
    \/ \E q \in QIds : TimerCancelled(q)
    \/ \E t \in lm_tasks : ctx[t].state \notin FinishedStates /\ Complete(t)
    \/ \E t \in lm_tasks : ctx[t].state \notin FinishedStates /\ Fail(t)
    \/ \E t \in lm_tasks : ctx[t].state \notin FinishedStates /\ Cancel(t)
    \/ \E t \in lm_tasks : LeftToTearDown(t) /\ CancelTask(t)
    \/ CleanupFinishedTasks

CleanupSpec == Init /\ [][CleanupNext]_vars

\* RecordSpec: the driver of one task asks questions about the suspension
\* records it holds: one built for the question, or one it asked about
\* before; the questions are answered, time out and are cancelled.
MaxRecordQuestions == 2

RecordNext ==
    \/ \E t \in RaceTasks : StartTask(t)
    \/ \E t \in im_tasks, oa \in OwnerAnswerKinds, ot \in OnTimeoutKinds :
          CanAsk(MaxRecordQuestions) /\ AskUserAsync(t, oa, ot)
    \/ \E t \in im_tasks, oa \in OwnerAnswerKinds, ot \in OnTimeoutKinds, r \in 1..Len(rcs) :
          CanAsk(MaxRecordQuestions) /\ AskUserAsyncAbout(t, oa, ot, r)
    \/ \E q \in pending, a \in Answers : CanAnswer(q, MaxOwnerAnswers) /\ ProvideAnswer(q, a)
    \/ \E c \in calls : ProvideAnswerResume(c)
    \/ \E q \in QIds : TimerFires(q)
    \/ \E q \in QIds : TimerCancelled(q)
    \/ \E q \in pending : CancelQuestion(q)

RecordSpec == Init /\ [][RecordNext]_vars

\* GatewaySpec: a manager with a gateway.  ask_user_async hands the message
\* of its question to websocket_send_callback and returns when the send has
\* returned; meanwhile the question can be answered, time out or be
\* cancelled, and the task can be unregistered (and asked for nonetheless).
GatewayNext ==
    \/ \E t \in RaceTasks : StartTask(t)
    \/ \E t \in RaceTasks, oa \in OnAnswerKinds, ot \in OnTimeoutKinds :
          CanAsk(MaxGatewayQuestions) /\ AskUserAsyncSend(t, oa, ot)
    \/ \E q \in QIds : AskUserAsyncReturn(q)
    \/ \E q \in pending, a \in Answers : CanAnswer(q, MaxOwnerAnswers) /\ ProvideAnswer(q, a)
    \/ \E c \in calls : ProvideAnswerResume(c)
    \/ \E q \in QIds : TimerFires(q)
    \/ \E q \in QIds : TimerCancelled(q)
    \/ \E q \in pending : CancelQuestion(q)
    \/ \E t \in RaceTasks : UnregisterTask(t)

GatewaySpec == Init /\ [][GatewayNext]_vars

\* the event loop resumes ask_user_async when the send has returned; nothing
\* is assumed of the operator, the timers or the driver
FairGatewaySpec ==
    /\ GatewaySpec
    /\ WF_vars(\E q \in QIds : AskUserAsyncReturn(q))

\* LifecycleSpec: two tasks driven through LifecycleManager alone: started
\* (also again under an id used before), their actions recorded and
\* variables set, completed, failed and cancelled (also twice, and under an
\* id the registry does not hold), the finished ones cleaned up.
MaxRecordedActions == 1

LifecycleNext ==
    \/ \E t \in Tasks : StartTask(t)
    \/ \E t \in Tasks : StartTaskAgain(t)
    \/ \E t \in Tasks : ctx[t].current_step < MaxRecordedActions /\ RecordAction(t)
    \/ \E t \in Tasks, key \in {"k"}, value \in {<<"v">>} : SetVariable(t, key, value)
    \/ \E t \in Tasks, success \in BOOLEAN : CompleteTask(t, success)
    \/ \E t \in Tasks : CancelTask(t)
    \/ CleanupFinishedTasks

LifecycleSpec == Init /\ [][LifecycleNext]_vars

\* HandlerSpec: an InteractionWebSocketHandler in front of an
\* InteractionManager with one task.  Question and answer messages arrive
\* well-formed and malformed: a key is absent, null or empty, the question
\* type is unknown, the question_id names a question of the manager or none.
MaxHandlerQuestions == 1
MaxForwarded == 2

\* the messages: each key is absent or has one of a few values (for
\* question_id: "", null, the id of the manager's question, an unknown id)
QuestionMessages ==
    LET Optional(key, values) == {EmptyDict} \cup {[k \in {key} |-> v] : v \in values}
    IN  {DictUpdate(DictUpdate(a, b), c) :
            a \in Optional("question_id", {<<>>, PyNone, <<"q", "1">>, <<"q", "2">>}),
            b \in Optional("question_text", {PyNone, <<"h", "i">>}),
            c \in Optional("question_type",
                           {<<"b", "a", "d">>, <<"c", "o", "n", "f", "i", "r", "m">>})}

AnswerMessages ==
    LET Optional(key, values) == {EmptyDict} \cup {[k \in {key} |-> v] : v \in values}
    IN  {DictUpdate(a, b) :
            a \in Optional("question_id", {<<>>, PyNone, <<"q", "1">>, <<"q", "2">>}),
            b \in Optional("answer", {PyNone, <<>>, <<"o", "k">>})}

HandlerNext ==
    \/ \E t \in RaceTasks : StartTask(t)
    \/ \E t \in im_tasks, oa \in {"none", "sync"}, ot \in OwnerTimeoutKinds :
          CanAsk(MaxHandlerQuestions) /\ AskUserAsync(t, oa, ot)
    \/ \E m \in QuestionMessages, send \in {"returns", "raises"} :
          /\ Cardinality(sent \cup {user_question(m)}) <= MaxForwarded
          /\ HandleQuestionMessage(m, send)
    \/ \E m \in AnswerMessages : HandleAnswerMessage(m)
    \/ \E q \in QIds : TimerCancelled(q)

HandlerSpec == Init /\ [][HandlerNext]_vars

\* SendFailureSpec: a manager whose gateway can fail.  The send of a
\* question's message returns or raises, at once or after the question was
\* answered, timed out or was cancelled.
MaxFailedSends == 1

SendFailureNext ==
    \/ \E t \in RaceTasks : StartTask(t)
    \/ \E t \in RaceTasks, oa \in OnAnswerKinds, ot \in OnTimeoutKinds :
          CanAsk(MaxFailedSends) /\ AskUserAsyncSend(t, oa, ot)
    \/ \E q \in QIds : AskUserAsyncReturn(q)
    \/ \E q \in QIds : AskUserAsyncSendRaises(q)
    \/ \E q \in pending, a \in Answers : CanAnswer(q, MaxOwnerAnswers) /\ ProvideAnswer(q, a)
    \/ \E c \in calls : ProvideAnswerResume(c)
    \/ \E q \in QIds : TimerFires(q)
    \/ \E q \in QIds : TimerCancelled(q)
    \/ \E q \in pending : CancelQuestion(q)

SendFailureSpec == Init /\ [][SendFailureNext]_vars

\* ----------------------------------------------- a ResumeContext, alone
\* the contexts a driver builds: a strategy around the arguments of an action
ResumeTemplates ==
    {NewResumeContext(REPLACE_PARAM, <<>>, [text |-> <<"o", "l", "d">>], EmptyDict),
     NewResumeContext(REPLACE_PARAM, <<>>, [value |-> <<"o", "l", "d">>, index |-> <<"5">>], EmptyDict),
     NewResumeContext(REPLACE_PARAM, <<>>,
                      [text |-> <<"o", "l", "d">>, value |-> <<"v">>], EmptyDict),
     NewResumeContext(REPLACE_PARAM, << <<"o", "l", "d">> >>, EmptyDict, EmptyDict),
     NewResumeContext(REPLACE_PARAM, << <<"o", "l", "d">>, <<"x">> >>, [index |-> <<"5">>], EmptyDict),
     NewResumeContext(REPLACE_PARAM, <<>>, EmptyDict, EmptyDict),
     NewResumeContext(CONFIRM_CANCEL, <<>>, EmptyDict, EmptyDict),
     NewResumeContext(CONFIRM_CANCEL, << <<"5">> >>, [index |-> <<"5">>], EmptyDict),
     NewResumeContext(PARAMETER_FILL, <<>>, EmptyDict, [param_name |-> "date"]),
     NewResumeContext(PARAMETER_FILL, <<>>, [date |-> <<"o", "l", "d">>], EmptyDict),
     NewResumeContext(ELEMENT_SELECTION, <<>>, [index |-> <<"5">>], EmptyDict)}

\* the answers of an operator: words, phrases, booleans, nothing
ResumeAnswers ==
    {<<"y", "e", "s">>, <<" ", "Y", "E", "S", " ">>, <<"n", "o">>,
     <<"m", "a", "y", "b", "e">>, <<"u4e0d", "u540c", "u610f">>, <<"u540c", "u610f">>,
     <<"o", "k">>, <<"n", "e", "w">>, <<"5">>, <<>>, PyTrue, PyFalse, PyNone}

\* the additional_data a transport attaches: none, side-channel metadata, a
\* key that is also an argument, the confirmation marker
ResumeExtras ==
    {EmptyDict, [device |-> <<"p">>], [text |-> <<"x">>],
     [__user_confirmed |-> PyTrue], [__user_confirmed |-> PyFalse]}

ResumeInit ==
    /\ rcs \in {<<rc>> : rc \in ResumeTemplates}
    /\ appliedAnswer = <<None>>
    /\ ctx = [t \in Tasks |-> NoTaskContext]
    /\ lm_tasks = {}
    /\ im_tasks = {}
    /\ current_task_id = None
    /\ im_running = TRUE
    /\ handler_questions = {}
    /\ sent = {}
    /\ message = EmptyDict
    /\ response = EmptyDict
    /\ questions = <<>>
    /\ pending = {}
    /\ future = <<>>
    /\ timeouts = {}
    /\ timer = <<>>
    /\ timeout_tasks = <<>>
    /\ calls = {}
    /\ hist = <<>>
    /\ last = Call("init", "", 0, "", FALSE)

\* rc.apply_answer(answer, additional_data)
ApplyAnswerCall(r, answer, additional_data) ==
    /\ r \in 1..Len(rcs)
    /\ rcs' = [rcs EXCEPT ![r] = ApplyAnswer(rcs[r], answer, additional_data)]
    /\ appliedAnswer' = [appliedAnswer EXCEPT ![r] = Some(answer)]
    /\ last' = Call("apply_answer", "", r,
                    IF additional_data = EmptyDict THEN "plain" ELSE "extra", FALSE)
    /\ UNCHANGED <<handlerVars, taskVars, questionVars>>

\* await rc.execute_with_modified_params()
ExecuteCall(r) ==
    /\ r \in 1..Len(rcs)
    /\ rcs' = [rcs EXCEPT ![r] = ExecuteUpdate(rcs[r])]
    /\ last' = Call("execute_with_modified_params", "", r, ExecuteOutcome(rcs[r]),
                    ExecuteOutcome(rcs[r]) = "called")
    /\ UNCHANGED <<handlerVars, appliedAnswer, taskVars, questionVars>>

ResumeNext ==
    \/ \E r \in 1..Len(rcs), a \in ResumeAnswers, e \in ResumeExtras : ApplyAnswerCall(r, a, e)
    \/ \E r \in 1..Len(rcs) : ExecuteCall(r)

ResumeSpec == ResumeInit /\ [][ResumeNext]_vars

\* --------------------------------------- a TaskExecutionContext, alone
\* the suspensions (question id and ResumeContext) the driver has at hand
MaxSuspensions == 2

TaskInit ==
    /\ rcs = [r \in 1..MaxSuspensions |-> DriverResumeContext]
    /\ appliedAnswer = [r \in 1..MaxSuspensions |-> None]
    /\ ctx = [t \in Tasks |-> NoTaskContext]
    /\ lm_tasks = {}
    /\ im_tasks = {}
    /\ current_task_id = None
    /\ im_running = TRUE
    /\ handler_questions = {}
    /\ sent = {}
    /\ message = EmptyDict
    /\ response = EmptyDict
    /\ questions = <<>>
    /\ pending = {}
    /\ future = <<>>
    /\ timeouts = {}
    /\ timer = <<>>
    /\ timeout_tasks = <<>>
    /\ calls = {}
    /\ hist = <<>>
    /\ last = Call("init", "", 0, "", FALSE)

TaskNext ==
    \/ Construct("t1")
    \/ \E s \in TaskStates : SetState("t1", s)
    \/ \E r \in 1..MaxSuspensions, cb \in ResumeCallbackKinds : PauseForUserInput("t1", r, r, cb)
    \/ \E a \in Answers : ResumeWithAnswer("t1", a)
    \/ Complete("t1")
    \/ Fail("t1")
    \/ Cancel("t1")
    \/ "t1" \notin im_tasks /\ RegisterTask("t1")

TaskSpec == TaskInit /\ [][TaskNext]_vars

\* the timers fire, cancelled timer tasks are run, and a suspended
\* provide_answer is resumed when its callback finishes: the event loop runs
\* every coroutine that is ready
FairSpec ==
    /\ Spec
    /\ WF_vars(\E q \in QIds : TimerFires(q))
    /\ WF_vars(\E q \in QIds : TimerCancelled(q))
    /\ WF_vars(\E c \in calls : ProvideAnswerResume(c))

\* ================================================================= claims
Created == 1..Len(questions)

\* the paths that have taken effect on question q: provide_answer accepted an
\* answer for it, its timer ran _on_question_timeout, cancel_question
\* cancelled it
PathsTaken(q) ==
    (IF hist[q].accepted > 0 THEN {"answer"} ELSE {})
    \cup (IF hist[q].timeout_run > 0 THEN {"timeout"} ELSE {})
    \cup (IF hist[q].cancel_true > 0 THEN {"cancel"} ELSE {})

\* C1: for every question, under any interleaving of provide_answer, the
\* timer and cancel_question, at most one of the three paths takes effect,
\* the future is completed at most once, and a path that comes second
\* invokes no callback (each callback runs at most once, and none runs for a
\* question that was cancelled).
C1_OnePathTakesEffect ==
    \A q \in Created :
        /\ Cardinality(PathsTaken(q)) <= 1
        /\ hist[q].resolved <= 1
        /\ hist[q].answer_cb + hist[q].timeout_cb <= 1

\* C2: of the provide_answer calls for one question id, in any interleaving,
\* at most one returns True and the on-answer callback is invoked at most
\* once.
C2_AnswerAtMostOnce ==
    \A q \in Created : hist[q].answer_true <= 1 /\ hist[q].answer_cb <= 1

\* C7: when the timer of a question fires with no answer accepted, the task
\* that was paused on that question has left waiting_for_input.
C7_TimeoutResumesTask ==
    \A q \in Created :
        LET t == questions[q].task_id
        IN  (/\ last.op = "_on_question_timeout" /\ last.id = q /\ last.ret = "ran"
             /\ hist[q].accepted = 0
             /\ ctx[t].pending_question_id = Some(q))
            => ctx[t].state # WAITING_USER

\* C8: every question accepted by ask_user_async is eventually removed from
\* the pending set with its future completed.
C8_EveryQuestionResolved ==
    \A q \in 1..MaxRaceQuestions :
        (q \in pending) ~>
            (q \in Created /\ q \notin pending /\ future[q].state # "pending")

\* C3: resume_with_answer on a task in any state other than waiting_user
\* (initialized, running, completed, failed, cancelled) raises ValueError and
\* leaves the task (state, suspension record, error), the modified arguments
\* of every ResumeContext and the answers applied unchanged, and invokes no
\* resume callback.
C3_ResumeOutsideWaitingRaises ==
    [][\A t \in Tasks :
          (/\ last'.op = "resume_with_answer"
           /\ last'.task = t
           /\ ctx[t].state # WAITING_USER)
          => /\ last'.ret = "ValueError"
             /\ ~last'.cb
             /\ ctx'[t] = ctx[t]
             /\ rcs' = rcs
             /\ appliedAnswer' = appliedAnswer]_vars

\* a cancelled task that still holds the suspension record of its last pause
\* has just refused resume_with_answer
C3_Witness ==
    \E t \in Tasks :
        /\ last.op = "resume_with_answer"
        /\ last.task = t
        /\ last.ret = "ValueError"
        /\ ctx[t].state = CANCELLED
        /\ ctx[t].current_resume_context # None
        /\ ctx[t].resume_callback = "returns"

\* the edges of the lifecycle
LifecycleEdges ==
    {<<INITIALIZED, RUNNING>>, <<RUNNING, WAITING_USER>>, <<WAITING_USER, RUNNING>>,
     <<RUNNING, COMPLETED>>, <<RUNNING, FAILED>>, <<RUNNING, CANCELLED>>,
     <<WAITING_USER, CANCELLED>>}

\* C4: a call of pause_for_user_input, resume_with_answer, complete, fail or
\* cancel changes the state of a task only along an edge of the lifecycle:
\* from any other state the call leaves the state as it was.
C4_OnlyLifecycleEdges ==
    [][\A t \in Tasks :
          (/\ last'.op \in {"pause_for_user_input", "resume_with_answer",
                            "complete", "fail", "cancel"}
           /\ ctx'[t].state # ctx[t].state)
          => <<ctx[t].state, ctx'[t].state>> \in LifecycleEdges]_vars

\* C5: after execute_with_modified_params on a confirm-or-cancel context whose
\* applied answer parses to false, the call has raised UserCancelledError and
\* the action was not invoked, whatever additional_data came with the answer.
C5_RefusalNeverRunsAction ==
    \A r \in 1..Len(rcs) :
        (/\ last.op = "execute_with_modified_params"
         /\ last.id = r
         /\ rcs[r].strategy = CONFIRM_CANCEL
         /\ appliedAnswer[r] # None
         /\ ~ParseConfirmation(appliedAnswer[r][1]))
        => (last.ret = "UserCancelledError" /\ ~last.cb)

\* the answers that are a confirmation: true, or a positive keyword alone
IsConfirmation(answer) ==
    \/ answer = PyTrue
    \/ /\ ~IsBool(answer)
       /\ \E i \in 1..Len(positive_keywords) :
             Strip(Lower(PyStr(answer))) = positive_keywords[i]

\* C6: an answer applied to a confirm-or-cancel context (no additional_data
\* at work) stores true for "yes", false for "bu tong yi" (u4e0d u540c u610f),
\* false for "maybe", and false for every answer that is not a confirmation.
C6_AmbiguousAnswerIsRefusal ==
    \A r \in 1..Len(rcs) :
        (/\ last.op = "apply_answer"
         /\ last.id = r
         /\ last.ret = "plain"
         /\ rcs[r].strategy = CONFIRM_CANCEL)
        => LET answer == appliedAnswer[r][1]
               confirmed == rcs[r].modified_kwargs[1]["__user_confirmed"] = PyTrue
           IN  /\ answer = <<"y", "e", "s">> => confirmed
               /\ answer = <<"u4e0d", "u540c", "u610f">> => ~confirmed
               /\ answer = <<"m", "a", "y", "b", "e">> => ~confirmed
               /\ ~IsConfirmation(answer) => ~confirmed

\* the questions asked for a task
QuestionsOf(t) == {q \in Created : questions[q].task_id = t}

\* C9: unregister_task(t) on a registered task returns True, removes t from
\* the registry and every question of t from the pending questions, with the
\* timer of each cancelled (gone from the timer table, its sleep cancelled)
\* and the future of each cancelled; the questions, timers and futures of
\* every other task are as before.  On a task that is not registered it
\* returns False and changes nothing.
C9_UnregisterSweepsOwnQuestions ==
    [][\A t \in Tasks :
          (last'.op = "unregister_task" /\ last'.task = t)
          => IF t \in im_tasks
             THEN /\ last'.ret = "True"
                  /\ im_tasks' = im_tasks \ {t}
                  /\ \A q \in QuestionsOf(t) \cap pending :
                        /\ q \notin pending'
                        /\ q \notin timeouts'
                        /\ timer'[q] # "sleeping"
                        /\ future'[q] = CancelledFuture
                  /\ \A q \in Created \ (QuestionsOf(t) \cap pending) :
                        /\ q \in pending' <=> q \in pending
                        /\ q \in timeouts' <=> q \in timeouts
                        /\ timer'[q] = timer[q]
                        /\ future'[q] = future[q]
             ELSE /\ last'.ret = "False"
                  /\ UNCHANGED <<rcs, appliedAnswer, ctx, lm_tasks, im_tasks, questions,
                                 pending, future, timeouts, timer, calls, hist>>]_vars

\* unregister_task has just swept the two questions of a task, while the
\* question of the other task is still pending with its timer armed
C9_Witness ==
    \E t \in Tasks, q1, q2, q3 \in Created :
        /\ last.op = "unregister_task" /\ last.task = t /\ last.ret = "True"
        /\ q1 < q2
        /\ questions[q1].task_id = t /\ hist[q1].swept = 1 /\ timer[q1] = "cancelling"
        /\ questions[q2].task_id = t /\ hist[q2].swept = 1 /\ timer[q2] = "cancelling"
        /\ questions[q3].task_id # t /\ q3 \in pending /\ timer[q3] = "sleeping"

\* how a complete_task or cancel_task on a known task is recorded
TornDown(call) ==
    /\ call.op \in {"complete_task", "cancel_task"}
    /\ call.ret # "unknown"

\* C10: right after complete_task or cancel_task on a task the
\* LifecycleManager knows, the task is completed, failed or cancelled, it is
\* not registered with the InteractionManager, none of its questions is
\* pending and none of their timers is armed.
C10_TornDownTaskOwnsNothing ==
    \A t \in Tasks :
        (TornDown(last) /\ last.task = t)
        => /\ ctx[t].state \in FinishedStates
           /\ t \notin im_tasks
           /\ \A q \in QuestionsOf(t) :
                 /\ q \notin pending
                 /\ q \notin timeouts
                 /\ timer[q] # "sleeping"

\* cancel_task has just found its task waiting on a question that was
\* pending with its timer armed, and swept it
C10_Witness ==
    \E t \in Tasks, q \in Created :
        /\ last.op = "cancel_task" /\ last.task = t /\ last.ret = "unregistered"
        /\ questions[q].task_id = t
        /\ ctx[t].pending_question_id = Some(q)
        /\ hist[q].swept = 1
        /\ hist[q].accepted = 0
        /\ timer[q] = "cancelling"

\* C11: a call of provide_answer for a question id that is not pending (never
\* created, or removed by its timeout or by a cancel) returns False, invokes
\* no callback and changes nothing: no future, no question, no timer, no
\* task, no ResumeContext.  (A step that ends a suspended call takes that
\* call out of `calls`; a step that leaves `calls` alone is a new call.)
C11_UnknownQuestionIgnored ==
    [][\A q \in QIds :
          (/\ last'.op = "provide_answer"
           /\ last'.id = q
           /\ calls' = calls
           /\ q \notin pending)
          => /\ last'.ret = "False"
             /\ ~last'.cb
             /\ UNCHANGED <<rcs, appliedAnswer, ctx, lm_tasks, im_tasks, questions,
                            pending, future, timeouts, timer, calls, hist>>]_vars

\* an answer has just arrived after the timer of its question fired: it was
\* refused, and the future still holds the default value
C11_Witness ==
    \E q \in Created :
        /\ last.op = "provide_answer" /\ last.id = q /\ last.ret = "False"
        /\ hist[q].timeout_run = 1
        /\ hist[q].accepted = 0
        /\ future[q] = set_result(DefaultValue)

\* C12: when the timer of a pending question fires, the future of the
\* question is completed with its default_value, the on-timeout callback, if
\* there is one, is invoked (once in the life of the question) with the
\* ResumeContext and the default value, no on-answer callback is invoked,
\* and the question and its timer entry are gone from their registries.
C12_TimeoutResolvesWithDefault ==
    [][\A q \in Created :
          (/\ last'.op = "_on_question_timeout"
           /\ last'.id = q
           /\ q \in pending)
          => LET question == questions[q]
                 t == question.task_id
                 has_callback == question.on_timeout_callback # "none"
             IN  /\ future'[q] = set_result(question.default_value)
                 /\ q \notin pending'
                 /\ q \notin timeouts'
                 /\ timer'[q] = "done"
                 /\ last'.cb = has_callback
                 /\ hist'[q].timeout_cb = (IF has_callback THEN 1 ELSE 0)
                 /\ hist'[q].answer_cb = hist[q].answer_cb
                 /\ (/\ has_callback
                     /\ ctx[t].state = WAITING_USER
                     /\ ctx[t].current_resume_context = Some(question.resume_context))
                    => appliedAnswer'[question.resume_context]
                          = Some(question.default_value)]_vars

\* the timer of a question nobody answered has just fired and its on-timeout
\* callback has resumed the waiting task with the default value
C12_Witness ==
    \E q \in Created :
        /\ last.op = "_on_question_timeout" /\ last.id = q /\ last.ret = "ran"
        /\ last.cb
        /\ hist[q].accepted = 0
        /\ hist[q].timeout_cb = 1
        /\ future[q] = set_result(DefaultValue)
        /\ appliedAnswer[questions[q].resume_context] = Some(DefaultValue)
        /\ ctx[questions[q].task_id].state = RUNNING

\* C13: cancel_question on a pending question returns True, cancels its
\* timer (the entry is gone, the sleep is cancelled), cancels its future,
\* removes the question and invokes neither its on-answer nor its on-timeout
\* callback; on an id that is not pending it returns False and changes
\* nothing.  A cancelled future stays cancelled: no later step gives it a
\* value.
C13_CancelQuestionCancels ==
    [][/\ \A q \in QIds :
             (last'.op = "cancel_question" /\ last'.id = q)
             => IF q \in pending
                THEN /\ last'.ret = "True"
                     /\ ~last'.cb
                     /\ q \notin timeouts'
                     /\ timer'[q] # "sleeping"
                     /\ future'[q] = CancelledFuture
                     /\ q \notin pending'
                     /\ hist'[q].answer_cb = hist[q].answer_cb
                     /\ hist'[q].timeout_cb = hist[q].timeout_cb
                     /\ UNCHANGED <<rcs, appliedAnswer, ctx>>
                ELSE /\ last'.ret = "False"
                     /\ UNCHANGED <<rcs, appliedAnswer, ctx, lm_tasks, im_tasks,
                                    questions, pending, future, timeouts, timer,
                                    calls, hist>>
       /\ \A q \in Created :
             future[q] = CancelledFuture => future'[q] = CancelledFuture]_vars

\* cancel_question has just cancelled a pending question that has an
\* on-timeout callback: the callback never ran, the timer was put out
C13_Witness ==
    \E q \in Created :
        /\ last.op = "cancel_question" /\ last.id = q /\ last.ret = "True"
        /\ questions[q].on_timeout_callback = "sync"
        /\ hist[q].timeout_cb = 0
        /\ hist[q].accepted = 0
        /\ timer[q] = "cancelling"
        /\ future[q] = CancelledFuture

\* C14: provide_answer on a pending question cancels the timer, then invokes
\* the on-answer callback, then completes the future with the answer, then
\* removes the question.  While it waits for a coroutine callback the timer
\* entry is gone and the future and the question are still pending; when it
\* has returned True the future holds the answer it was given, and the
\* question and its timer entry are gone.
C14_TrueMeansAnswerStored ==
    \A q \in Created :
        (last.op = "provide_answer" /\ last.id = q)
        => /\ last.ret = "await"
              => /\ q \notin timeouts
                 /\ hist[q].answer_cb >= 1
                 /\ q \in pending
                 /\ future[q] = PendingFuture
           /\ last.ret = "True"
              => /\ q \notin timeouts
                 /\ q \notin pending
                 /\ future[q].state = "finished"
                 /\ future[q].result \in Answers

\* the bookkeeping of question q is complete: its future is done, the
\* question and its timer entry are gone
BookkeepingDone(q) ==
    /\ future'[q].state # "pending"
    /\ q \notin pending'
    /\ q \notin timeouts'

\* C15: an on-answer or on-timeout callback that raises does not make
\* provide_answer or the timer raise, and the bookkeeping completes as if
\* the callback had returned.  A callback that is a plain function raises
\* when the task it resumes is not waiting; a coroutine callback ends, by
\* returning or by raising, in the step that ends the suspended call.
C15_CallbackErrorContained ==
    [][/\ \A q \in Created :
             (/\ last'.op = "provide_answer" /\ last'.id = q
              /\ calls' = calls
              /\ q \in pending
              /\ questions[q].on_answer_callback = "sync"
              /\ resume_raises(ctx[questions[q].task_id]))
             => (last'.ret = "True" /\ BookkeepingDone(q))
       /\ \A q \in Created :
             (/\ last'.op = "_on_question_timeout" /\ last'.id = q
              /\ q \in pending
              /\ questions[q].on_timeout_callback = "sync"
              /\ resume_raises(ctx[questions[q].task_id]))
             => (last'.ret = "ran" /\ BookkeepingDone(q))
       /\ \A c \in calls :
             (last'.op = "provide_answer" /\ c \notin calls')
             => (last'.ret = "True" /\ BookkeepingDone(c.q))]_vars

\* the step is the return of an ask_user_async that awaited the gateway
AskReturns ==
    \E q \in Created : hist[q].gateway = "sending" /\ hist'[q].gateway = "sent"

\* C16: a call of ask_user_async for a task that is not registered with the
\* InteractionManager raises ValueError and has no effect: no question is
\* created or pending, no timer is armed, no message is handed to the gateway
\* (the history of every question is as before).
C16_UnregisteredTaskRefused ==
    [][\A t \in Tasks :
          (/\ last'.op = "ask_user_async"
           /\ last'.task = t
           /\ ~AskReturns
           /\ t \notin im_tasks)
          => /\ last'.ret = "ValueError"
             /\ ~last'.cb
             /\ UNCHANGED <<rcs, appliedAnswer, ctx, lm_tasks, im_tasks, questions,
                            pending, future, timeouts, timer, calls, hist>>]_vars

\* a task was asked for through the gateway, then unregistered, then asked
\* for again: the second ask_user_async has just raised
C16_Witness ==
    \E t \in Tasks, q \in Created :
        /\ last.op = "ask_user_async" /\ last.task = t /\ last.ret = "ValueError"
        /\ t \in lm_tasks
        /\ t \notin im_tasks
        /\ questions[q].task_id = t
        /\ hist[q].gateway = "sent"
        /\ Len(questions) < MaxGatewayQuestions

\* the message of question q has just been handed to the gateway: the call
\* of ask_user_async that created q is at "await websocket_send_callback"
HandedToGateway(q) ==
    last.op = "ask_user_async" /\ last.ret = "await" /\ last.id = q

C18_ResumeAppliesAndContinues ==
    [][\A t \in Tasks :
          (/\ last'.op = "resume_with_answer"
           /\ last'.task = t
           /\ ctx[t].state = WAITING_USER
           /\ ctx[t].current_resume_context # None)
          => LET r == ctx[t].current_resume_context[1]
             IN  /\ last'.ret = ""
                 /\ last'.cb = (ctx[t].resume_callback # "none")
                 /\ rcs'[r].modified_args # None
                 /\ rcs'[r].modified_kwargs # None
                 /\ \E a \in Answers :
                       /\ appliedAnswer'[r] = Some(a)
                       /\ DictGet(rcs'[r].modified_kwargs[1], "date", PyNone) = a
                 /\ ctx'[t].state = RUNNING
                 /\ ctx'[t].error = IF ctx[t].resume_callback = "raises"
                                    THEN Some(CallbackError)
                                    ELSE ctx[t].error
                 /\ ctx'[t] = [ctx[t] EXCEPT !.state = ctx'[t].state,
                                             !.error = ctx'[t].error]]_vars

\* a resume whose callback raised has returned: the task runs, with the
\* message of the exception as its error and the answer in its record
C18_Witness ==
    \E t \in Tasks :
        /\ last = Call("resume_with_answer", t, 0, "", TRUE)
        /\ ctx[t].state = RUNNING
        /\ ctx[t].resume_callback = "raises"
        /\ ctx[t].error = Some(CallbackError)
        /\ ctx[t].current_resume_context # None
        /\ appliedAnswer[ctx[t].current_resume_context[1]] # None

\* C19: pause_for_user_input on a task that is waiting for the user already
\* changes nothing: the state, the suspension record, the pending question
\* id and the resume callback are those of the pause that made it wait.
C19_SecondPauseIgnored ==
    [][\A t \in Tasks :
          (/\ last'.op = "pause_for_user_input"
           /\ last'.task = t
           /\ ctx[t].state = WAITING_USER)
          => /\ ctx'[t] = ctx[t]
             /\ UNCHANGED <<rcs, appliedAnswer>>]_vars

\* a task waiting on one question was paused for another one, and still
\* waits on the first
C19_Witness ==
    \E t \in Tasks :
        /\ last.op = "pause_for_user_input"
        /\ last.task = t
        /\ ctx[t].state = WAITING_USER
        /\ ctx[t].pending_question_id # None
        /\ ctx[t].pending_question_id # Some(last.id)
        /\ ctx[t].current_resume_context # Some(last.id)

\* C20: once complete has set the result of a task or fail has set its
\* error, a following call of complete, fail, cancel or resume_with_answer
\* on that task changes neither the stored result nor the stored error.
C20_TerminalValuesSetOnce ==
    [][\A t \in Tasks :
          (/\ last.op \in {"complete", "fail"}
           /\ last.task = t
           /\ last'.op \in {"complete", "fail", "cancel", "resume_with_answer"}
           /\ last'.task = t)
          => /\ ctx'[t].result = ctx[t].result
             /\ ctx'[t].error = ctx[t].error]_vars

\* C21: once apply_answer has set the modified arguments of a ResumeContext,
\* no later operation (another apply_answer, another resume of the task,
\* execute_with_modified_params) changes modified_args or modified_kwargs.
C21_ModifiedSnapshotSetOnce ==
    [][\A r \in 1..Len(rcs) :
          (rcs[r].modified_args # None /\ rcs[r].modified_kwargs # None)
          => /\ rcs'[r].modified_args = rcs[r].modified_args
             /\ rcs'[r].modified_kwargs = rcs[r].modified_kwargs]_vars

\* C22: at every moment no two pending questions of the InteractionManager
\* refer to the same suspension record (ResumeContext).
C22_OneLiveQuestionPerRecord ==
    \A q1 \in pending, q2 \in pending :
        q1 # q2 => questions[q1].resume_context # questions[q2].resume_context

\* the ResumeContext r has just been given an answer, with no additional_data
AnswerApplied(r) ==
    last'.op = "apply_answer" /\ last'.id = r /\ last'.ret = "plain"

\* C23: in confirm-or-cancel parsing a boolean answer is returned as it is,
\* and an answer that is not a boolean and whose lower-cased, trimmed text
\* contains a negative keyword gives False, also when it contains a positive
\* keyword too.
C23_NegativeKeywordsFirst ==
    [][\A r \in 1..Len(rcs) :
          (AnswerApplied(r) /\ rcs[r].strategy = CONFIRM_CANCEL)
          => LET answer == appliedAnswer'[r][1]
                 confirmed == rcs'[r].modified_kwargs[1]["__user_confirmed"]
                 text == Strip(Lower(PyStr(answer)))
             IN  /\ IsBool(answer) => confirmed = answer
                 /\ (/\ ~IsBool(answer)
                     /\ \E i \in 1..Len(negative_keywords) : Contains(text, negative_keywords[i]))
                    => confirmed = PyFalse]_vars

\* an answer that holds a negative keyword and a positive one was parsed as
\* a refusal
C23_Witness ==
    /\ last.op = "apply_answer" /\ last.ret = "plain"
    /\ rcs[last.id].strategy = CONFIRM_CANCEL
    /\ appliedAnswer[last.id] = Some(<<"u4e0d", "u540c", "u610f">>)
    /\ Contains(appliedAnswer[last.id][1], <<"u540c", "u610f">>)
    /\ Contains(appliedAnswer[last.id][1], <<"u4e0d">>)
    /\ rcs[last.id].modified_kwargs[1]["__user_confirmed"] = PyFalse

\* C24: for the replace-primary-parameter strategy apply_answer replaces
\* exactly one argument with the answer: kwargs["text"] if the original
\* kwargs have "text", otherwise kwargs["value"] if they have "value",
\* otherwise the first positional argument; every other positional and
\* keyword argument of the modified snapshot equals the original.
C24_ReplacesOnePrimaryArgument ==
    [][\A r \in 1..Len(rcs) :
          (last'.op = "apply_answer" /\ last'.id = r /\ rcs[r].strategy = REPLACE_PARAM)
          => LET answer == appliedAnswer'[r][1]
                 args == rcs[r].original_args
                 kwargs == rcs[r].original_kwargs
                 modified_args == rcs'[r].modified_args[1]
                 modified_kwargs == rcs'[r].modified_kwargs[1]
             IN  IF "text" \in DOMAIN kwargs
                 THEN /\ modified_kwargs = [kwargs EXCEPT !["text"] = answer]
                      /\ modified_args = args
                 ELSE IF "value" \in DOMAIN kwargs
                 THEN /\ modified_kwargs = [kwargs EXCEPT !["value"] = answer]
                      /\ modified_args = args
                 ELSE /\ Len(args) > 0
                      /\ modified_args = [args EXCEPT ![1] = answer]
                      /\ modified_kwargs = kwargs]_vars

\* C25: execute_with_modified_params on a ResumeContext no answer was applied
\* to raises ValueError, does not call the action function and leaves the
\* ResumeContext as it was.
C25_ExecuteNeedsAnswer ==
    [][\A r \in 1..Len(rcs) :
          (/\ last'.op = "execute_with_modified_params"
           /\ last'.id = r
           /\ (rcs[r].modified_args = None \/ rcs[r].modified_kwargs = None))
          => /\ last'.ret = "ValueError"
             /\ ~last'.cb
             /\ rcs' = rcs]_vars

\* execute_with_modified_params has just raised on a ResumeContext that was
\* never answered
C25_Witness ==
    /\ last = Call("execute_with_modified_params", "", 1, "ValueError", FALSE)
    /\ appliedAnswer[1] = None
    /\ rcs[1].modified_args = None
    /\ rcs[1].modified_kwargs = None

\* C26: set_timeout with an id that is scheduled raises ValueError and
\* leaves the registry as it was: the timer under that id keeps its delay,
\* its callback and its task, and no other timer changes.
C26_DuplicateTimerRefused ==
    [][\A id \in 1..Len(timer) :
          (last'.op = "set_timeout" /\ last'.id = id /\ id \in timeouts)
          => /\ last'.ret = "ValueError"
             /\ UNCHANGED <<timeouts, timer, timeout_tasks>>]_vars

\* set_timeout has just raised for the id of a timer whose coroutine
\* callback is suspended, while another timer sleeps
C26_Witness ==
    /\ last.op = "set_timeout" /\ last.ret = "ValueError"
    /\ last.id \in timeouts
    /\ timer[last.id] = "running"
    /\ timeout_tasks[last.id].callback = "async"
    /\ \E id \in timeouts : id # last.id /\ timer[id] = "sleeping"

\* C27: cancel_timeout(id) returns True exactly when a timer is registered
\* under id; a timer cancelled before its callback started never runs the
\* callback; a callback that has started, a coroutine callback suspended
\* part-way included, is not touched by the cancellation.
C27_StartedCallbackWins ==
    [][/\ \A id \in 1..(Len(timer) + 1) :
             (last'.op = "cancel_timeout" /\ last'.id = id)
             => /\ (last'.ret = "True") <=> (id \in timeouts)
                /\ (id <= Len(timer) /\ timer[id] = "running") => timer'[id] = "running"
       /\ \A id \in 1..Len(timer) :
             timer[id] = "cancelling"
             => /\ timer'[id] \in {"cancelling", "done"}
                /\ ~(last'.op = "_run_timeout" /\ last'.id = id /\ last'.cb)]_vars

\* C28: TimeoutManager.shutdown cancels every outstanding timer and returns
\* only when every callback that was executing when it was called has
\* finished; when it has returned the registry is empty.
C28_ShutdownWaitsForCallbacks ==
    [][(last'.op = "TimeoutManager.shutdown" /\ last'.ret = "")
       => /\ timeouts' = {}
          /\ \A id \in 1..Len(timer) :
                /\ timer'[id] # "sleeping"
                /\ timer[id] = "running" => timer'[id] = "done"]_vars

\* C29: when InteractionManager.shutdown returns, no question is pending,
\* every future that was pending is cancelled, no timer is registered or
\* still sleeping in the TimeoutManager, and no task is registered.
C29_ShutdownLeavesNothing ==
    [][last'.op = "InteractionManager.shutdown"
       => /\ last'.ret = ""
          /\ pending' = {}
          /\ \A q \in Created :
                future[q] = PendingFuture => future'[q] = CancelledFuture
          /\ timeouts' = {}
          /\ \A q \in Created : timer'[q] # "sleeping"
          /\ im_tasks' = {}]_vars

\* shutdown has just cancelled a question whose answer was being delivered
\* (provide_answer is suspended in the on-answer callback) and a question
\* whose timer was sleeping
C29_Witness ==
    /\ last.op = "InteractionManager.shutdown"
    /\ \E q1 \in Created, q2 \in Created :
          /\ future[q1] = CancelledFuture
          /\ \E c \in calls : c.q = q1
          /\ future[q2] = CancelledFuture
          /\ timer[q2] = "cancelling"
          /\ hist[q2].accepted = 0

\* C30: cleanup_finished_tasks removes from the registry of the
\* LifecycleManager exactly the tasks that are completed, failed or
\* cancelled, unregisters them from the InteractionManager, and leaves
\* every task that is initialized, running or waiting for the user in the
\* registry, registered as it was and in the state it was in.
C30_CleanupRemovesFinishedOnly ==
    [][last'.op = "cleanup_finished_tasks"
       => /\ \A t \in lm_tasks :
                IF ctx[t].state \in {COMPLETED, FAILED, CANCELLED}
                THEN t \notin lm_tasks' /\ t \notin im_tasks'
                ELSE /\ ctx[t].state \in {INITIALIZED, RUNNING, WAITING_USER}
                     /\ t \in lm_tasks'
                     /\ (t \in im_tasks') <=> (t \in im_tasks)
          /\ lm_tasks' \subseteq lm_tasks
          /\ ctx' = ctx]_vars

\* a cleanup has just removed a cancelled task, whose pending question it
\* cancelled on the way, and kept a task that waits for the user
C30_Witness ==
    /\ last.op = "cleanup_finished_tasks"
    /\ \E t1 \in Tasks, t2 \in Tasks, q \in Created :
          /\ ctx[t1].state = CANCELLED
          /\ t1 \notin lm_tasks
          /\ questions[q].task_id = t1
          /\ hist[q].swept > 0
          /\ future[q] = CancelledFuture
          /\ ctx[t2].state = WAITING_USER
          /\ t2 \in lm_tasks
          /\ t2 \in im_tasks

\* C32: a task holds a suspension record and a pending question id only
\* while it waits for the user: when resume_with_answer has succeeded or the
\* task has been cancelled, current_resume_context and pending_question_id
\* are unset.
C32_SuspensionEndsWithResume ==
    [][\A t \in Tasks :
          (/\ last'.task = t
           /\ \/ last'.op = "resume_with_answer" /\ last'.ret = ""
              \/ last'.op = "cancel")
          => /\ ctx'[t].current_resume_context = None
             /\ ctx'[t].pending_question_id = None]_vars

\* C33: in apply_answer, for every strategy, additional_data is merged into
\* the keyword arguments last: every key of additional_data carries the
\* value of additional_data in modified_kwargs, whatever the original
\* kwargs or the strategy put there, and every other key is as the strategy
\* left it.
C33_ExtraDataMergedLast ==
    [][\A r \in 1..Len(rcs) :
          (last'.op = "apply_answer" /\ last'.id = r)
          => LET answer == appliedAnswer'[r][1]
                 by_strategy == StrategyKwargs(rcs[r], answer)
                 modified_kwargs == rcs'[r].modified_kwargs[1]
             IN  \E extra_data \in ResumeExtras :
                    /\ (last'.ret = "plain") <=> (extra_data = EmptyDict)
                    /\ DOMAIN modified_kwargs = DOMAIN by_strategy \cup DOMAIN extra_data
                    /\ \A k \in DOMAIN extra_data : modified_kwargs[k] = extra_data[k]
                    /\ \A k \in DOMAIN by_strategy \ DOMAIN extra_data :
                          modified_kwargs[k] = by_strategy[k]]_vars

\* additional_data has just overridden the keyword argument the
\* replace-parameter strategy wrote the answer to
C33_Witness ==
    /\ last.op = "apply_answer" /\ last.ret = "extra"
    /\ rcs[last.id].strategy = REPLACE_PARAM
    /\ "text" \in DOMAIN rcs[last.id].original_kwargs
    /\ appliedAnswer[last.id] = Some(<<"n", "e", "w">>)
    /\ rcs[last.id].modified_kwargs[1]["text"] = <<"x">>

\* C39: for a confirm-or-cancel ResumeContext whose applied answer parsed to
\* True (and was not overridden to False by additional_data), every call of execute_with_modified_params, the first and each
\* later one, calls the action, with modified kwargs that do not hold
\* "__user_confirmed"; none of them raises UserCancelledError.
C39_ConfirmedStaysConfirmed ==
    [][\A r \in 1..Len(rcs) :
          (/\ last'.op = "execute_with_modified_params"
           /\ last'.id = r
           /\ rcs[r].strategy = CONFIRM_CANCEL
           /\ appliedAnswer[r] # None
           /\ ParseConfirmation(appliedAnswer[r][1])
           /\ DictGet(rcs[r].modified_kwargs[1], "__user_confirmed", PyTrue) = PyTrue)
          => /\ last'.ret = "called"
             /\ last'.cb
             /\ "__user_confirmed" \notin DOMAIN rcs'[r].modified_kwargs[1]]_vars

\* C34: in a TimeoutManager, whenever another coroutine can run, an id is in
\* the registry exactly when a task scheduled under it is still to finish
\* (it sleeps or its callback runs) and has not been cancelled, also for an
\* id that was cancelled and scheduled again.
C34_RegistryMatchesLiveTimers ==
    \A id \in 1..Len(timer) :
        (id \in timeouts) <=> (timer[id] \in {"sleeping", "running", "rescheduled"})

\* C36: whenever another coroutine can run, the ids with a timer in the
\* InteractionManager's TimeoutManager are the ids of the pending questions:
\* no question is pending without a timer, also while provide_answer is
\* suspended in a coroutine on-answer callback, and no timer is left for a
\* question that is no longer pending.
C36_TimersMatchPending == timeouts = pending

\* the step is the return of an ask_user_async whose send to the gateway raised
SendRaised(q) == hist[q].gateway = "sending" /\ hist'[q].gateway = "failed"

C38_ShutdownIsFinal == ~im_running => (pending = {} /\ timeouts = {})

\* C37: when tasks are driven through LifecycleManager alone, after every
\* operation the tasks registered with the InteractionManager are the tasks
\* of the LifecycleManager's registry that are not completed, failed or
\* cancelled, and _current_task_id is None or the id of such a task.
C37_RegistriesAgree ==
    /\ im_tasks = {t \in lm_tasks : ctx[t].state \notin FinishedStates}
    /\ \/ current_task_id = None
       \/ \E t \in lm_tasks :
             current_task_id = Some(t) /\ ctx[t].state \notin FinishedStates

\* two tasks were started and the first was completed, so that the second
\* stayed the current task; cleanup_finished_tasks has just removed the first
C37_Witness ==
    /\ last.op = "cleanup_finished_tasks"
    /\ ctx["t1"].state = COMPLETED
    /\ lm_tasks = {"t2"}
    /\ im_tasks = {"t2"}
    /\ ctx["t2"].state = RUNNING
    /\ current_task_id = Some("t2")

\* the message has no value under the key: the key is absent or null
Lacks(m, key) == DictGet(m, key, PyNone) = PyNone

\* C31: the handler forwards no malformed message: a question message that
\* lacks question_id or question_text gets an error response and is not
\* given to websocket_send_callback; an answer message that lacks
\* question_id or whose answer is null gets an error response and
\* provide_answer is not called (nothing of the manager changes).
C31_MalformedNeverForwarded ==
    [][/\ (/\ last'.op = "handle_question_message"
           /\ Lacks(message', "question_id") \/ Lacks(message', "question_text"))
          => /\ response'.status = "error"
             /\ ~last'.cb
             /\ sent' = sent
       /\ (/\ last'.op = "handle_answer_message"
           /\ Lacks(message', "question_id") \/ Lacks(message', "answer"))
          => /\ response'.status = "error"
             /\ ~last'.cb
             /\ UNCHANGED <<resumeVars, taskVars, questionVars>>]_vars
====
